---- MODULE Spec2Model ----
(***************************************************************************)
(* A model of the tolchain node core: the buffered state store, the        *)
(* transaction executor and its handlers, the chain store, the mempool,    *)
(* proof-of-authority block production and the block syncer.               *)
(*                                                                         *)
(* Strings are modelled as finite sequences of integers (the empty string  *)
(* is <<>>), so that byte-wise string order is the lexicographic order of  *)
(* the sequences.  A SHA-256 hash is modelled as an injective encoding of  *)
(* the hashed bytes; JSON encodings are modelled by the encoded record.    *)
(***************************************************************************)
EXTENDS Integers, Sequences, FiniteSets, TLC

VARIABLES
    nodes,      \* [Nodes -> [key, state, bc, mempool]]: the objects of each process
    alive,      \* [Nodes -> BOOLEAN]: FALSE once the process has exited (log.Fatalf)
    last,       \* the last operation: its inputs, the state before it, its outcome
    applied,    \* [Keys -> Nat]: ExecuteTx calls that returned nil, per sender
    kinds,      \* the kinds of the transactions those calls applied
    steps,      \* number of calls made directly on the executor and the state store
    tasks,      \* the goroutines of node 1 that use its state store: position and locals
    marks,      \* what the state store read as when each open snapshot was taken
    cfg,        \* the configuration the nodes were started with: [validators]
    hist,       \* the calls made so far on the component under study, in order
    net         \* a peer connection of node 1: [peer, conn, wire, inbox, outbox]

vars == <<nodes, alive, last, applied, kinds, steps, tasks, marks, cfg, hist, net>>

(***************************************************************************)
(* Bounds of the model.                                                    *)
(***************************************************************************)
NKeys == 3          \* number of ed25519 public keys
MaxU == 7           \* the largest unsigned value (math.MaxUint64, scaled down)
MaxSteps == 4       \* calls per behaviour of the executor specification
MaxHeight == 1      \* highest block height produced
MaxPool == 2        \* transactions submitted to the mempools
MaxSeed == 2        \* map iteration orders tried per loop
MaxTime == 2        \* clock readings

Keys == {<<k>> : k \in 1 .. NKeys}   \* public keys in hex
EmptyStr == <<>>
BadKeyHex == <<0>>                 \* a non-empty string that is no public key
Nodes == {1, 2}
Validators == << <<1>>, <<2>> >>   \* cfg.Validators: node n holds key <<n>>
ChainID == <<9>>                   \* cfg.Genesis.ChainID

Wrap(x) == x % (MaxU + 1)          \* uint64 arithmetic wraps

Ok(st) == [ok |-> TRUE, st |-> st, err |-> "none"]
Fail(st, e) == [ok |-> FALSE, st |-> st, err |-> e]

(***************************************************************************)
(* Strings: order and sorting.                                             *)
(***************************************************************************)
RECURSIVE StrLess(_, _)
StrLess(a, b) ==
    IF a = <<>> THEN b # <<>>
    ELSE IF b = <<>> THEN FALSE
    ELSE IF Head(a) # Head(b) THEN Head(a) < Head(b)
    ELSE StrLess(Tail(a), Tail(b))

MinStr(S) == CHOOSE k \in S : \A j \in S : j = k \/ StrLess(k, j)

RECURSIVE SortStrings(_)
SortStrings(S) ==
    IF S = {} THEN <<>>
    ELSE LET m == MinStr(S) IN <<m>> \o SortStrings(S \ {m})

RECURSIVE InsertSorted(_, _)
InsertSorted(sorted, k) ==
    IF sorted = <<>> THEN <<k>>
    ELSE IF StrLess(k, Head(sorted)) THEN <<k>> \o sorted
    ELSE <<Head(sorted)>> \o InsertSorted(Tail(sorted), k)

RECURSIVE SortKeys(_)
SortKeys(keys) ==
    IF keys = <<>> THEN <<>>
    ELSE InsertSorted(SortKeys(Tail(keys)), Head(keys))

Reverse(s) == [i \in 1 .. Len(s) |-> s[Len(s) + 1 - i]]
Rotate(s, r) == [i \in 1 .. Len(s) |-> s[((i - 1 + r) % Len(s)) + 1]]

\* The order in which a Go map with key set S is iterated: unspecified, and
\* different from one iteration to the next.  seed selects one of the orders.
MapOrder(S, seed) ==
    LET base == SortStrings(S)
        n == Len(base)
    IN  IF n = 0 THEN <<>>
        ELSE IF (seed \div n) % 2 = 1 THEN Reverse(Rotate(base, seed % n))
        ELSE Rotate(base, seed % n)

Seeds == (0 .. MaxSeed - 1) \X (0 .. MaxSeed - 1)

(***************************************************************************)
(* Maps.                                                                   *)
(***************************************************************************)
EmptyMap == [k \in {} |-> 0]
MapPut(m, k, v) == [j \in DOMAIN m \cup {k} |-> IF j = k THEN v ELSE m[j]]
MapDel(m, k) == [j \in DOMAIN m \ {k} |-> m[j]]

(***************************************************************************)
(* State store (storage.StateDB).                                          *)
(***************************************************************************)
prefixAccount == 1      \* "acct:"
prefixAsset == 2        \* "asset:"
prefixListing == 3      \* "list:"
prefixSession == 4      \* "sess:"
prefixTemplate == 5     \* "tmpl:"
statePrefixes == {prefixAccount, prefixAsset, prefixTemplate, prefixSession, prefixListing}

ErrNotFound == [notFound |-> TRUE]

NewStateDB(db) == [db |-> db, dirty |-> EmptyMap, deleted |-> {}, snapshots |-> <<>>]

get(s, key) ==
    IF key \in s.deleted THEN ErrNotFound
    ELSE IF key \in DOMAIN s.dirty THEN s.dirty[key]
    ELSE IF key \in DOMAIN s.db THEN s.db[key]
    ELSE ErrNotFound

\* set that leaves a tombstone of the key in place.
setKeepTombstone(s, key, val) == [s EXCEPT !.dirty = MapPut(@, key, val)]

set(s, key, val) ==
    [s EXCEPT !.deleted = @ \ {key}, !.dirty = MapPut(@, key, val)]

del(s, key) ==
    [s EXCEPT !.dirty = MapDel(@, key), !.deleted = @ \cup {key}]

AccountKey(address) == <<prefixAccount>> \o address
AssetKey(id) == <<prefixAsset>> \o id
TemplateKey(id) == <<prefixTemplate>> \o id
SessionKey(id) == <<prefixSession>> \o id
ListingKey(id) == <<prefixListing>> \o id

GetAccount(s, address) ==
    LET data == get(s, AccountKey(address))
    IN  IF data = ErrNotFound
        THEN [address |-> address, balance |-> 0, nonce |-> 0]
        ELSE data

SetAccount(s, acc) == set(s, AccountKey(acc.address), acc)
GetAsset(s, id) == get(s, AssetKey(id))
SetAsset(s, asset) == set(s, AssetKey(asset.id), asset)
DeleteAsset(s, id) == del(s, AssetKey(id))
GetTemplate(s, id) == get(s, TemplateKey(id))
SetTemplate(s, t) == set(s, TemplateKey(t.id), t)
GetSession(s, id) == get(s, SessionKey(id))
SetSession(s, sess) == set(s, SessionKey(sess.id), sess)
GetListing(s, id) == get(s, ListingKey(id))
SetListing(s, l) == set(s, ListingKey(l.id), l)

\* Snapshot returns the id (the stack depth before the push) and the new store.
Snapshot(s) ==
    [id |-> Len(s.snapshots),
     st |-> [s EXCEPT !.snapshots =
                Append(@, [dirty |-> s.dirty, deleted |-> s.deleted])]]

\* RevertToSnapshot that drops the snapshot and keeps the buffered writes.
RevertToSnapshotKeep(s, id) ==
    IF id < 0 \/ id >= Len(s.snapshots) THEN Fail(s, "invalid snapshot id")
    ELSE Ok([s EXCEPT !.snapshots = SubSeq(@, 1, id)])

\* RevertToSnapshot that restores the buffered writes and not the tombstones.
RevertToSnapshotDirtyOnly(s, id) ==
    IF id < 0 \/ id >= Len(s.snapshots) THEN Fail(s, "invalid snapshot id")
    ELSE Ok([s EXCEPT !.dirty = s.snapshots[id + 1].dirty,
                      !.snapshots = SubSeq(@, 1, id)])

\* RevertToSnapshot that leaves the snapshot stack as it is.
RevertToSnapshotKeepStack(s, id) ==
    IF id < 0 \/ id >= Len(s.snapshots) THEN Fail(s, "invalid snapshot id")
    ELSE Ok([s EXCEPT !.dirty = s.snapshots[id + 1].dirty,
                      !.deleted = s.snapshots[id + 1].deleted])

RevertToSnapshot(s, id) ==
    IF id < 0 \/ id >= Len(s.snapshots) THEN Fail(s, "invalid snapshot id")
    ELSE LET snap == s.snapshots[id + 1]
         IN  Ok([s EXCEPT !.dirty = snap.dirty,
                          !.deleted = snap.deleted,
                          !.snapshots = SubSeq(@, 1, id)])

\* Steps 1-3 of ComputeRoot: the persisted entries under the state prefixes,
\* overlaid with the write buffer, minus the tombstones.
Merged(s) ==
    LET persisted == {k \in DOMAIN s.db : Head(k) \in statePrefixes}
        keys == (persisted \cup DOMAIN s.dirty) \ s.deleted
    IN  [k \in keys |-> IF k \in DOMAIN s.dirty THEN s.dirty[k] ELSE s.db[k]]

Hash(data) == <<[sha256 |-> data]>>

\* ComputeRoot without step 4: the pairs are hashed in map iteration order.
ComputeRootUnsorted(s, seed) ==
    LET merged == Merged(s)
        keys == MapOrder(DOMAIN merged, seed)
    IN  Hash([i \in 1 .. Len(keys) |-> <<keys[i], merged[keys[i]]>>])

\* Steps 4-5: the keys, collected in map iteration order, are sorted and
\* each pair is length-prefix encoded; the root is the hash of the stream.
ComputeRoot(s, seed) ==
    LET merged == Merged(s)
        keys == SortKeys(MapOrder(DOMAIN merged, seed))
    IN  Hash([i \in 1 .. Len(keys) |-> <<keys[i], merged[keys[i]]>>])

\* ComputeRoot that flushes the buffer after hashing.
ComputeRootCallFlush(s, seed) ==
    [st |-> [db |-> [k \in (DOMAIN s.db \cup DOMAIN s.dirty) \ s.deleted |->
                        IF k \in DOMAIN s.dirty THEN s.dirty[k] ELSE s.db[k]],
             dirty |-> EmptyMap, deleted |-> {}, snapshots |-> <<>>],
     root |-> ComputeRoot(s, seed)]

\* ComputeRoot as a call on the store: the store after it, and the root.
ComputeRootCall(s, seed) == [st |-> s, root |-> ComputeRoot(s, seed)]

\* Batch.Write of the KV store: the puts and the deletes are applied together
\* or not at all; ioOk is whether the write succeeds.  A batch without
\* entries writes nothing and succeeds.
BatchWrite(db, puts, deletes, ioOk) ==
    IF DOMAIN puts = {} /\ deletes = {} THEN Ok(db)
    ELSE IF ~ioOk THEN Fail(db, "batch write")
    ELSE Ok([k \in (DOMAIN db \cup DOMAIN puts) \ deletes |->
                IF k \in DOMAIN puts THEN puts[k] ELSE db[k]])

\* Commit that writes key by key: a failed flush has written the puts.
CommitPerKey(s, batchOk) ==
    LET res == BatchWrite(s.db, s.dirty, s.deleted, batchOk)
    IN  IF ~res.ok
        THEN Fail([s EXCEPT !.db = [k \in DOMAIN s.db \cup DOMAIN s.dirty |->
                                       IF k \in DOMAIN s.dirty THEN s.dirty[k] ELSE s.db[k]]],
                  "batch write")
        ELSE Ok([db |-> res.st, dirty |-> EmptyMap, deleted |-> {}, snapshots |-> <<>>])

\* Commit whose batch holds the puts and not the deletes.
CommitPutsOnly(s, batchOk) ==
    LET res == BatchWrite(s.db, s.dirty, {}, batchOk)
    IN  IF ~res.ok THEN Fail(s, "batch write")
        ELSE Ok([db |-> res.st, dirty |-> EmptyMap, deleted |-> {}, snapshots |-> <<>>])

\* Commit flushes the buffer in one batch; batchOk is whether the write succeeds.
Commit(s, batchOk) ==
    LET res == BatchWrite(s.db, s.dirty, s.deleted, batchOk)
    IN  IF ~res.ok THEN Fail(s, "batch write")
        ELSE Ok([db |-> res.st, dirty |-> EmptyMap, deleted |-> {}, snapshots |-> <<>>])

(***************************************************************************)
(* Transactions (core.Transaction).                                        *)
(***************************************************************************)
TxTypes == {"transfer", "mint_asset", "burn_asset", "transfer_asset",
            "register_template", "session_open", "session_result",
            "list_market", "buy_market"}

TypeCode(typ) ==
    CASE typ = "transfer" -> 1
      [] typ = "mint_asset" -> 2
      [] typ = "burn_asset" -> 3
      [] typ = "transfer_asset" -> 4
      [] typ = "register_template" -> 5
      [] typ = "session_open" -> 6
      [] typ = "session_result" -> 7
      [] typ = "list_market" -> 8
      [] typ = "buy_market" -> 9
      [] OTHER -> 0

Str(s) == <<Len(s)>> \o s           \* a string field of an encoding
Bool(b) == IF b THEN <<1>> ELSE <<0>>

RECURSIVE StrList(_)
StrList(l) == IF l = <<>> THEN <<>> ELSE Str(Head(l)) \o StrList(Tail(l))

RECURSIVE OutcomeBytes(_, _)
OutcomeBytes(outcome, keys) ==
    IF keys = <<>> THEN <<>>
    ELSE Str(Head(keys)) \o <<outcome[Head(keys)]>> \o OutcomeBytes(outcome, Tail(keys))

\* The JSON payload bytes of a transaction.
PayloadBytes(typ, p) ==
    CASE typ = "transfer" -> Str(p.to) \o <<p.amount>>
      [] typ = "mint_asset" -> Str(p.template_id) \o Str(p.owner)
      [] typ = "burn_asset" -> Str(p.asset_id)
      [] typ = "transfer_asset" -> Str(p.asset_id) \o Str(p.to)
      [] typ = "register_template" -> Str(p.id) \o Bool(p.tradeable)
      [] typ = "session_open" ->
            Str(p.session_id) \o <<Len(p.players)>> \o StrList(p.players) \o <<p.stakes>>
      [] typ = "session_result" ->
            Str(p.session_id) \o <<Cardinality(DOMAIN p.outcome)>>
                \o OutcomeBytes(p.outcome, SortStrings(DOMAIN p.outcome))
      [] typ = "list_market" -> Str(p.asset_id) \o <<p.price>>
      [] typ = "buy_market" -> Str(p.listing_id)
      [] OTHER -> <<>>

\* Transaction.Hash: the hash of the signing body (every field but id and signature).
TxHash(tx) ==
    <<TypeCode(tx.type)>> \o Str(tx.from) \o <<tx.nonce, tx.fee, tx.timestamp>>
        \o PayloadBytes(tx.type, tx.payload)

NoSignature == [signer |-> EmptyStr, msg |-> EmptyStr]
CryptoSign(key, data) == [signer |-> key, msg |-> data]
CryptoVerify(pub, data, sig) == sig.signer = pub /\ sig.msg = data
PubKeyFromHexOk(s) == s \in Keys

NewTransaction(typ, from, nonce, fee, timestamp, payload) ==
    [id |-> EmptyStr, type |-> typ, from |-> from, nonce |-> nonce, fee |-> fee,
     timestamp |-> timestamp, payload |-> payload, signature |-> NoSignature]

TxSign(tx, key) ==
    [tx EXCEPT !.signature = CryptoSign(key, TxHash(tx)), !.id = TxHash(tx)]

TxVerify(tx) ==
    /\ tx.from # EmptyStr
    /\ PubKeyFromHexOk(tx.from)
    /\ CryptoVerify(tx.from, TxHash(tx), tx.signature)

(***************************************************************************)
(* Handlers (vm/modules).  ctx is [block, tx]; the result is Ok or Fail.   *)
(***************************************************************************)
handleTransfer(s, ctx, p) ==
    IF p.amount = 0 THEN Fail(s, "transfer amount must be > 0")
    ELSE IF p.to = EmptyStr THEN Fail(s, "transfer to address required")
    ELSE LET sender == GetAccount(s, ctx.tx.from)
         IN  IF sender.balance < p.amount THEN Fail(s, "insufficient balance")
             ELSE LET s1 == SetAccount(s, [sender EXCEPT !.balance = @ - p.amount])
                      recipient == GetAccount(s1, p.to)
                  IN  Ok(SetAccount(s1, [recipient EXCEPT
                                            !.balance = Wrap(@ + p.amount)]))

handleRegisterTemplate(s, ctx, p) ==
    IF p.id = EmptyStr THEN Fail(s, "template id required")
    ELSE IF GetTemplate(s, p.id) # ErrNotFound THEN Fail(s, "template already exists")
    ELSE Ok(SetTemplate(s, [id |-> p.id, tradeable |-> p.tradeable,
                            creator |-> ctx.tx.from]))

\* crypto.Hash(tx.ID + ":asset:" + templateID)
AssetID(txID, templateID) == txID \o <<-1>> \o templateID
\* crypto.Hash(tx.ID + ":listing:" + assetID)
ListingID(txID, assetID) == txID \o <<-2>> \o assetID

handleMintAsset(s, ctx, p) ==
    IF p.template_id = EmptyStr THEN Fail(s, "template_id required")
    ELSE LET tmpl == GetTemplate(s, p.template_id)
         IN  IF tmpl = ErrNotFound THEN Fail(s, "template not found")
             ELSE IF p.owner # EmptyStr /\ ~PubKeyFromHexOk(p.owner)
                  THEN Fail(s, "invalid owner pubkey")
             ELSE LET owner == IF p.owner = EmptyStr THEN ctx.tx.from ELSE p.owner
                  IN  Ok(SetAsset(s, [id |-> AssetID(ctx.tx.id, p.template_id),
                                      template_id |-> p.template_id,
                                      owner |-> owner,
                                      tradeable |-> tmpl.tradeable,
                                      minted_at |-> ctx.block.header.timestamp,
                                      active_listing_id |-> EmptyStr]))

handleBurnAsset(s, ctx, p) ==
    LET asset == GetAsset(s, p.asset_id)
    IN  IF asset = ErrNotFound THEN Fail(s, "asset not found")
        ELSE IF asset.owner # ctx.tx.from THEN Fail(s, "only the asset owner can burn it")
        ELSE IF asset.active_listing_id # EmptyStr THEN Fail(s, "asset has an active listing")
        ELSE Ok(DeleteAsset(s, p.asset_id))

handleTransferAsset(s, ctx, p) ==
    IF p.to = EmptyStr THEN Fail(s, "to address required")
    ELSE IF ~PubKeyFromHexOk(p.to) THEN Fail(s, "invalid to pubkey")
    ELSE LET asset == GetAsset(s, p.asset_id)
         IN  IF asset = ErrNotFound THEN Fail(s, "asset not found")
             ELSE IF asset.owner # ctx.tx.from
                  THEN Fail(s, "only the asset owner can transfer it")
             ELSE IF ~asset.tradeable THEN Fail(s, "asset is not tradeable")
             ELSE IF asset.active_listing_id # EmptyStr
                  THEN Fail(s, "asset has an active listing")
             ELSE Ok(SetAsset(s, [asset EXCEPT !.owner = p.to]))

handleListMarket(s, ctx, p) ==
    IF p.price = 0 THEN Fail(s, "price must be > 0")
    ELSE LET asset == GetAsset(s, p.asset_id)
         IN  IF asset = ErrNotFound THEN Fail(s, "asset not found")
             ELSE IF asset.owner # ctx.tx.from
                  THEN Fail(s, "only the asset owner can list it")
             ELSE IF ~asset.tradeable THEN Fail(s, "asset is not tradeable")
             ELSE IF asset.active_listing_id # EmptyStr
                  THEN Fail(s, "asset is already listed")
             ELSE LET listingID == ListingID(ctx.tx.id, p.asset_id)
                      s1 == SetListing(s, [id |-> listingID,
                                           asset_id |-> p.asset_id,
                                           seller |-> ctx.tx.from,
                                           price |-> p.price,
                                           active |-> TRUE,
                                           created_at |-> ctx.block.header.timestamp])
                  IN  Ok(SetAsset(s1, [asset EXCEPT !.active_listing_id = listingID]))

\* handleBuyMarket that leaves the asset's listing marker in place.
handleBuyMarketKeepMarker(s, ctx, p) ==
    LET listing == GetListing(s, p.listing_id)
    IN  IF listing = ErrNotFound THEN Fail(s, "listing not found")
        ELSE IF ~listing.active THEN Fail(s, "listing is no longer active")
        ELSE IF listing.seller = ctx.tx.from
             THEN Fail(s, "seller cannot buy their own listing")
        ELSE LET buyer == GetAccount(s, ctx.tx.from)
             IN  IF buyer.balance < listing.price THEN Fail(s, "insufficient balance")
                 ELSE LET s1 == SetAccount(s, [buyer EXCEPT !.balance = @ - listing.price])
                          seller == GetAccount(s1, listing.seller)
                          s2 == SetAccount(s1, [seller EXCEPT
                                                  !.balance = Wrap(@ + listing.price)])
                          asset == GetAsset(s2, listing.asset_id)
                      IN  IF asset = ErrNotFound THEN Fail(s2, "asset not found")
                          ELSE LET s3 == SetAsset(s2, [asset EXCEPT !.owner = ctx.tx.from])
                               IN  Ok(SetListing(s3, [listing EXCEPT !.active = FALSE]))

handleBuyMarket(s, ctx, p) ==
    LET listing == GetListing(s, p.listing_id)
    IN  IF listing = ErrNotFound THEN Fail(s, "listing not found")
        ELSE IF ~listing.active THEN Fail(s, "listing is no longer active")
        ELSE IF listing.seller = ctx.tx.from
             THEN Fail(s, "seller cannot buy their own listing")
        ELSE LET buyer == GetAccount(s, ctx.tx.from)
             IN  IF buyer.balance < listing.price THEN Fail(s, "insufficient balance")
                 ELSE LET s1 == SetAccount(s, [buyer EXCEPT !.balance = @ - listing.price])
                          seller == GetAccount(s1, listing.seller)
                          s2 == SetAccount(s1, [seller EXCEPT
                                                  !.balance = Wrap(@ + listing.price)])
                          asset == GetAsset(s2, listing.asset_id)
                      IN  IF asset = ErrNotFound THEN Fail(s2, "asset not found")
                          ELSE LET s3 == SetAsset(s2, [asset EXCEPT
                                                         !.owner = ctx.tx.from,
                                                         !.active_listing_id = EmptyStr])
                               IN  Ok(SetListing(s3, [listing EXCEPT !.active = FALSE]))

\* The stake-locking loop of handleSessionOpen over players[i..].
RECURSIVE LockStakes(_, _, _)
LockStakes(s, players, stakes) ==
    IF players = <<>> THEN Ok(s)
    ELSE LET acc == GetAccount(s, Head(players))
         IN  IF acc.balance < stakes
             THEN Fail(s, "player insufficient balance for stakes")
             ELSE LockStakes(SetAccount(s, [acc EXCEPT !.balance = @ - stakes]),
                             Tail(players), stakes)

handleSessionOpen(s, ctx, p) ==
    IF p.session_id = EmptyStr THEN Fail(s, "session_id required")
    ELSE IF Len(p.players) = 0 THEN Fail(s, "at least one player required")
    ELSE IF GetSession(s, p.session_id) # ErrNotFound THEN Fail(s, "session already exists")
    ELSE LET locked == IF p.stakes > 0 THEN LockStakes(s, p.players, p.stakes) ELSE Ok(s)
         IN  IF ~locked.ok THEN locked
             ELSE Ok(SetSession(locked.st,
                        [id |-> p.session_id, players |-> p.players,
                         stakes |-> p.stakes, status |-> "open",
                         outcome |-> EmptyMap,
                         created_at |-> ctx.block.header.timestamp,
                         closed_at |-> 0]))

\* The reward validation loop of handleSessionResult, in map iteration order:
\* TRUE iff no reward exceeds what is left of totalStakes.
RECURSIVE RewardsWithin(_, _, _, _)
RewardsWithin(outcome, order, totalStakes, totalRewards) ==
    IF order = <<>> THEN TRUE
    ELSE LET reward == outcome[Head(order)]
         IN  IF reward > totalStakes - totalRewards THEN FALSE
             ELSE RewardsWithin(outcome, Tail(order), totalStakes,
                                Wrap(totalRewards + reward))

\* The distribution loop of handleSessionResult, in map iteration order.
RECURSIVE Distribute(_, _, _)
Distribute(s, outcome, order) ==
    IF order = <<>> THEN s
    ELSE LET acc == GetAccount(s, Head(order))
         IN  Distribute(SetAccount(s, [acc EXCEPT
                                         !.balance = Wrap(@ + outcome[Head(order)])]),
                        outcome, Tail(order))

\* handleSessionResult without the test of the session's status.
handleSessionResultAnyStatus(s, ctx, p, seed) ==
    LET sess == GetSession(s, p.session_id)
    IN  IF sess = ErrNotFound THEN Fail(s, "session not found")
        ELSE LET totalStakes == Wrap(sess.stakes * Len(sess.players))
             IN  IF ~RewardsWithin(p.outcome, MapOrder(DOMAIN p.outcome, seed[1]),
                                   totalStakes, 0)
                 THEN Fail(s, "rewards exceed total stakes")
                 ELSE LET s1 == Distribute(s, p.outcome,
                                           MapOrder(DOMAIN p.outcome, seed[2]))
                      IN  Ok(SetSession(s1, [sess EXCEPT
                                               !.status = "closed",
                                               !.outcome = p.outcome,
                                               !.closed_at = ctx.block.header.timestamp]))

handleSessionResult(s, ctx, p, seed) ==
    LET sess == GetSession(s, p.session_id)
    IN  IF sess = ErrNotFound THEN Fail(s, "session not found")
        ELSE IF sess.status # "open" THEN Fail(s, "session already closed")
        ELSE LET totalStakes == Wrap(sess.stakes * Len(sess.players))
             IN  IF ~RewardsWithin(p.outcome, MapOrder(DOMAIN p.outcome, seed[1]),
                                   totalStakes, 0)
                 THEN Fail(s, "rewards exceed total stakes")
                 ELSE LET s1 == Distribute(s, p.outcome,
                                           MapOrder(DOMAIN p.outcome, seed[2]))
                      IN  Ok(SetSession(s1, [sess EXCEPT
                                               !.status = "closed",
                                               !.outcome = p.outcome,
                                               !.closed_at = ctx.block.header.timestamp]))

\* Registry.Execute: dispatch on the transaction type.
RegistryExecute(typ, s, ctx, p, seed) ==
    CASE typ = "transfer" -> handleTransfer(s, ctx, p)
      [] typ = "register_template" -> handleRegisterTemplate(s, ctx, p)
      [] typ = "mint_asset" -> handleMintAsset(s, ctx, p)
      [] typ = "burn_asset" -> handleBurnAsset(s, ctx, p)
      [] typ = "transfer_asset" -> handleTransferAsset(s, ctx, p)
      [] typ = "list_market" -> handleListMarket(s, ctx, p)
      [] typ = "buy_market" -> handleBuyMarket(s, ctx, p)
      [] typ = "session_open" -> handleSessionOpen(s, ctx, p)
      [] typ = "session_result" -> handleSessionResult(s, ctx, p, seed)
      [] OTHER -> Fail(s, "no handler registered")

(***************************************************************************)
(* Executor (vm.Executor).                                                 *)
(***************************************************************************)
\* The nonce and fee part of applyTx with the proposer's record loaded before
\* the sender's is saved and written back whoever the proposer is.
applyTxFeeStale(s, block, tx) ==
    LET acc == GetAccount(s, tx.from)
        proposerKey == block.header.proposer
    IN  IF acc.nonce # tx.nonce THEN Fail(s, "invalid nonce")
        ELSE IF acc.balance < tx.fee THEN Fail(s, "insufficient balance for fee")
        ELSE IF acc.nonce = MaxU THEN Fail(s, "nonce overflow")
        ELSE LET acc1 == [acc EXCEPT !.balance = @ - tx.fee, !.nonce = @ + 1]
                 proposer == GetAccount(s, proposerKey)
                 s1 == SetAccount(s, acc1)
             IN  IF tx.fee > 0 /\ proposerKey # EmptyStr
                 THEN IF proposer.balance > MaxU - tx.fee
                      THEN Fail(s1, "proposer balance overflow")
                      ELSE Ok(SetAccount(s1, [proposer EXCEPT !.balance = @ + tx.fee]))
                 ELSE Ok(s1)

\* applyTx up to the call of the handler: the nonce and fee checks, the
\* debit of the fee with the nonce increment, and the credit to the proposer.
applyTxFee(s, block, tx) ==
    LET acc == GetAccount(s, tx.from)
        proposerKey == block.header.proposer
    IN  IF acc.nonce # tx.nonce THEN Fail(s, "invalid nonce")
        ELSE IF acc.balance < tx.fee THEN Fail(s, "insufficient balance for fee")
        ELSE IF acc.nonce = MaxU THEN Fail(s, "nonce overflow")
        ELSE LET acc1 == [acc EXCEPT !.balance = @ - tx.fee, !.nonce = @ + 1]
             IN  IF tx.fee > 0 /\ proposerKey # EmptyStr /\ tx.from # proposerKey
                 THEN LET s1 == SetAccount(s, acc1)
                          proposer == GetAccount(s1, proposerKey)
                      IN  IF proposer.balance > MaxU - tx.fee
                          THEN Fail(s1, "proposer balance overflow")
                          ELSE Ok(SetAccount(s1, [proposer EXCEPT !.balance = @ + tx.fee]))
                 ELSE LET acc2 == IF tx.fee > 0 /\ tx.from = proposerKey
                                  THEN [acc1 EXCEPT !.balance = @ + tx.fee]
                                  ELSE acc1
                      IN  Ok(SetAccount(s, acc2))

\* The rest of applyTx: the handler of the transaction's type runs on the
\* state the fee transfer left.
applyTxHandler(charged, block, tx, seed) ==
    LET res == charged
    IN  IF ~res.ok THEN res
        ELSE RegistryExecute(tx.type, res.st, [block |-> block, tx |-> tx], tx.payload, seed)

\* applyTx with the nonce left alone when the transaction pays no fee.
applyTxFreeNonce(s, block, tx, seed) ==
    LET acc == GetAccount(s, tx.from)
        proposerKey == block.header.proposer
    IN  IF acc.nonce # tx.nonce THEN Fail(s, "invalid nonce")
        ELSE IF acc.balance < tx.fee THEN Fail(s, "insufficient balance for fee")
        ELSE IF acc.nonce = MaxU THEN Fail(s, "nonce overflow")
        ELSE LET acc1 == [acc EXCEPT !.balance = @ - tx.fee,
                                     !.nonce = IF tx.fee = 0 THEN @ ELSE @ + 1]
                 ctx == [block |-> block, tx |-> tx]
             IN  IF tx.fee > 0 /\ proposerKey # EmptyStr /\ tx.from # proposerKey
                 THEN LET s1 == SetAccount(s, acc1)
                          proposer == GetAccount(s1, proposerKey)
                      IN  IF proposer.balance > MaxU - tx.fee
                          THEN Fail(s1, "proposer balance overflow")
                          ELSE RegistryExecute(tx.type,
                                   SetAccount(s1, [proposer EXCEPT !.balance = @ + tx.fee]),
                                   ctx, tx.payload, seed)
                 ELSE LET acc2 == IF tx.fee > 0 /\ tx.from = proposerKey
                                  THEN [acc1 EXCEPT !.balance = @ + tx.fee]
                                  ELSE acc1
                      IN  RegistryExecute(tx.type, SetAccount(s, acc2), ctx,
                                          tx.payload, seed)

applyTx(s, block, tx, seed) == applyTxHandler(applyTxFee(s, block, tx), block, tx, seed)

\* The end of ExecuteTx: a failed applyTx is rolled back to the snapshot.
ExecuteTxResult(outcome, snapID) ==
    LET res == outcome
    IN  IF ~res.ok THEN Fail(RevertToSnapshot(res.st, snapID).st, res.err) ELSE res

\* ExecuteTx without the rollback of a failed transaction.
ExecuteTxNoRevert(s, block, tx, seed) ==
    IF ~TxVerify(tx) THEN Fail(s, "signature")
    ELSE applyTx(Snapshot(s).st, block, tx, seed)

ExecuteTx(s, block, tx, seed) ==
    IF ~TxVerify(tx) THEN Fail(s, "signature")
    ELSE LET snap == Snapshot(s)
         IN  ExecuteTxResult(applyTx(snap.st, block, tx, seed), snap.id)

\* The loop of ExecuteBlock over the transactions txs, stopping at the first
\* error.  seed gives the map iteration orders met while executing them.
RECURSIVE ExecuteTxs(_, _, _, _)
\* The loop going on to the next transaction after a failed one.
ExecuteTxsRestSkip(executed, block, txs, seed) ==
    ExecuteTxs(executed.st, block, txs, seed)

ExecuteTxsRest(executed, block, txs, seed) ==
    LET res == executed
    IN  IF ~res.ok THEN res ELSE ExecuteTxs(res.st, block, txs, seed)

ExecuteTxs(s, block, txs, seed) ==
    IF txs = <<>> THEN Ok(s)
    ELSE ExecuteTxsRest(ExecuteTx(s, block, Head(txs), seed), block, Tail(txs), seed)

ExecuteBlock(s, block, seed) == ExecuteTxs(s, block, block.transactions, seed)

(***************************************************************************)
(* Blocks (core.Block).                                                    *)
(***************************************************************************)
NoBlock == [none |-> TRUE]          \* a nil *Block
GenesisHash == <<[zeros |-> 64]>>   \* the all-zeros previous hash
IsGenesisHash(h) == h = GenesisHash

ComputeHash(block) == Hash(block.header)

RECURSIVE TxIDs(_)
TxIDs(txs) == IF txs = <<>> THEN <<>> ELSE Str(Head(txs).id) \o TxIDs(Tail(txs))

ComputeTxRoot(txs) == IF Len(txs) = 0 THEN Hash(<<-3>>) ELSE Hash(TxIDs(txs))

NewBlock(chainID, blockHeight, prevHash, proposer, txs, now) ==
    [header |-> [chain_id |-> chainID, height |-> blockHeight, prev_hash |-> prevHash,
                 state_root |-> EmptyStr, tx_root |-> ComputeTxRoot(txs),
                 timestamp |-> now, proposer |-> proposer],
     transactions |-> txs, hash |-> EmptyStr, signature |-> NoSignature]

BlockSign(block, key) ==
    [block EXCEPT !.hash = ComputeHash(block),
                  !.signature = CryptoSign(key, ComputeHash(block))]

BlockVerify(block, pub) ==
    /\ block.hash = ComputeHash(block)
    /\ CryptoVerify(pub, block.hash, block.signature)

(***************************************************************************)
(* Chain store (core.Blockchain over a BlockStore).  bc is                 *)
(* [store, tip, height]; store is [blocks, heights, tip].                  *)
(***************************************************************************)
EmptyStore == [blocks |-> EmptyMap, heights |-> EmptyMap, tip |-> EmptyStr]

\* BlockStore.CommitBlock: the block record, the height index entry and the
\* tip pointer are written in one batch; ioOk is whether the write succeeds.
CommitBlock(st, block, ioOk) ==
    IF ~ioOk THEN Fail(st, "commit block")
    ELSE Ok([blocks |-> MapPut(st.blocks, block.hash, block),
             heights |-> MapPut(st.heights, block.header.height, block.hash),
             tip |-> block.hash])

NewBlockchain(st) == [store |-> st, tip |-> NoBlock, height |-> 0]

\* AddBlock without the linkage checks.
AddBlockNoLinkage(bc, block, ioOk) ==
    LET res == CommitBlock(bc.store, block, ioOk)
    IN  IF ~res.ok THEN Fail(bc, "commit block")
        ELSE Ok([store |-> res.st, tip |-> block, height |-> block.header.height])

\* AddBlock over three separate store writes (PutBlock, PutBlockByHeight,
\* SetTip), the second of which is the one that can fail.
AddBlockSeparateWrites(bc, block, ioOk) ==
    IF bc.tip # NoBlock /\ block.header.height # bc.height + 1
    THEN Fail(bc, "block height does not follow tip")
    ELSE IF bc.tip # NoBlock /\ block.header.prev_hash # bc.tip.hash
    THEN Fail(bc, "prev_hash mismatch")
    ELSE LET put == [bc.store EXCEPT !.blocks = MapPut(@, block.hash, block)]
             res == CommitBlock(put, block, ioOk)
         IN  IF ~res.ok THEN Fail([bc EXCEPT !.store = put], "put block by height")
             ELSE Ok([store |-> res.st, tip |-> block, height |-> block.header.height])

AddBlock(bc, block, ioOk) ==
    IF bc.tip # NoBlock /\ block.header.height # bc.height + 1
    THEN Fail(bc, "block height does not follow tip")
    ELSE IF bc.tip # NoBlock /\ block.header.prev_hash # bc.tip.hash
    THEN Fail(bc, "prev_hash mismatch")
    ELSE LET res == CommitBlock(bc.store, block, ioOk)
         IN  IF ~res.ok THEN Fail(bc, "commit block")
             ELSE Ok([store |-> res.st, tip |-> block, height |-> block.header.height])

GetBlockByHeight(bc, h) ==
    IF h \in DOMAIN bc.store.heights THEN bc.store.blocks[bc.store.heights[h]]
    ELSE ErrNotFound

(***************************************************************************)
(* Mempool (core.Mempool): txs by id, ord the insertion-ordered ids.       *)
(***************************************************************************)
maxMempoolSize == 10000
maxTxAge == 2           \* one hour, in clock units
maxTxFuture == 1        \* five minutes, in clock units

NewMempool == [txs |-> EmptyMap, ord |-> <<>>]

\* Mempool.Add before it takes the lock: "none" or the error.
AddChecks(tx, now) ==
    IF ~TxVerify(tx) THEN "invalid tx signature"
    ELSE IF now - tx.timestamp > maxTxAge THEN "transaction expired"
    ELSE IF tx.timestamp - now > maxTxFuture
         THEN "transaction timestamp too far in the future"
    ELSE "none"

\* The locked part of Mempool.Add with the duplicate test left out.
AddLockedNoDuplicateTest(m, tx, cap) ==
    IF Cardinality(DOMAIN m.txs) >= cap THEN Fail(m, "mempool full")
    ELSE Ok([txs |-> MapPut(m.txs, tx.id, tx), ord |-> Append(m.ord, tx.id)])

\* Mempool.Add under the lock, for a pool of capacity cap.
AddLocked(m, tx, cap) ==
    IF Cardinality(DOMAIN m.txs) >= cap THEN Fail(m, "mempool full")
    ELSE IF tx.id \in DOMAIN m.txs THEN Fail(m, "tx already in pool")
    ELSE Ok([txs |-> MapPut(m.txs, tx.id, tx), ord |-> Append(m.ord, tx.id)])

MempoolAdd(m, tx, now) ==
    IF AddChecks(tx, now) # "none" THEN Fail(m, AddChecks(tx, now))
    ELSE AddLocked(m, tx, maxMempoolSize)

RECURSIVE PendingFrom(_, _, _)
PendingFrom(m, ord, n) ==
    IF ord = <<>> THEN <<>>
    ELSE IF Head(ord) \in DOMAIN m.txs
         THEN <<m.txs[Head(ord)]>>
              \o (IF 1 >= n THEN <<>> ELSE PendingFrom(m, Tail(ord), n - 1))
         ELSE PendingFrom(m, Tail(ord), n)

Pending(m, n) == PendingFrom(m, m.ord, n)

\* Mempool.Remove that empties the pool.
MempoolRemoveAll(m, ids) ==
    [txs |-> [id \in {} |-> m.txs[id]], ord |-> <<>>]

MempoolRemove(m, ids) ==
    [txs |-> [id \in DOMAIN m.txs \ ids |-> m.txs[id]],
     ord |-> SelectSeq(m.ord, LAMBDA id : id \notin ids)]

(***************************************************************************)
(* Consensus (consensus.PoA).  A node is [key, state, bc, mempool].        *)
(***************************************************************************)
MaxBlockTxs == 2        \* cfg.MaxBlockTxs
maxBlockTimeDrift == 0  \* 15 seconds, in clock units

ValidatorAt(h) == Validators[(h % Len(Validators)) + 1]

\* Go's remainder: the result has the sign of the dividend.
GoRem(a, b) == IF a >= 0 THEN a % b ELSE -((-a) % b)

\* idx := int(height % int64(len(validators)))
ProposerIndex(validators, h) == GoRem(h, Len(validators))

\* IsProposer that always names the first validator.
IsProposerFirst(validators, node) ==
    IF Len(validators) = 0 THEN FALSE
    ELSE validators[1] = node.key

\* IsProposer of a PoA configured with the list validators.
IsProposerWith(validators, node) ==
    IF Len(validators) = 0 THEN FALSE
    ELSE validators[ProposerIndex(validators, node.bc.height + 1) + 1] = node.key

IsProposer(node) == IsProposerWith(Validators, node)

\* A trace entry: one call made on the chain store or on the state store.
Call(name, block, ok) == [call |-> name, hash |-> block.hash, ok |-> ok]

\* ProduceBlock with the state flushed before the block is handed to the
\* chain store.
ProduceBlockFlushFirst(node, now, seed, io) ==
    IF ~IsProposer(node)
    THEN [ok |-> FALSE, err |-> "not the proposer", node |-> node, fatal |-> FALSE,
          block |-> NoBlock, trace |-> <<>>]
    ELSE
    LET limit == IF MaxBlockTxs <= 0 THEN 500 ELSE MaxBlockTxs
        txs == Pending(node.mempool, limit)
        chainTip == node.bc.tip
        prevHash == IF chainTip = NoBlock THEN GenesisHash ELSE chainTip.hash
        nextHeight == IF chainTip = NoBlock THEN 1 ELSE chainTip.header.height + 1
        block == NewBlock(ChainID, nextHeight, prevHash, node.key, txs, now)
        exec == ExecuteBlock(node.state, block, seed)
    IN  IF ~exec.ok
        THEN [ok |-> FALSE, err |-> "execute block", fatal |-> FALSE,
              node |-> [node EXCEPT !.state = exec.st],
              block |-> block, trace |-> <<>>]
        ELSE
        LET rooted == [block EXCEPT !.header.state_root = ComputeRoot(exec.st, seed[1])]
            signedBlock == BlockSign(rooted, node.key)
            committed == Commit(exec.st, io.state)
            added == AddBlock(node.bc, signedBlock, io.store)
        IN  IF ~committed.ok
            THEN [ok |-> FALSE, err |-> "state commit failed", fatal |-> TRUE,
                  node |-> [node EXCEPT !.state = committed.st],
                  block |-> signedBlock,
                  trace |-> <<Call("Commit", signedBlock, FALSE)>>]
            ELSE IF ~added.ok
            THEN [ok |-> FALSE, err |-> "add block", fatal |-> FALSE,
                  node |-> [node EXCEPT !.state = committed.st],
                  block |-> signedBlock,
                  trace |-> <<Call("Commit", signedBlock, TRUE),
                              Call("AddBlock", signedBlock, FALSE)>>]
            ELSE [ok |-> TRUE, err |-> "none", fatal |-> FALSE,
                  node |-> [node EXCEPT
                              !.state = committed.st,
                              !.bc = added.st,
                              !.mempool = MempoolRemove(@, {txs[i].id : i \in DOMAIN txs})],
                  block |-> signedBlock,
                  trace |-> <<Call("Commit", signedBlock, TRUE),
                              Call("AddBlock", signedBlock, TRUE)>>]

\* ProduceBlock at clock reading now.  io.store and io.state tell whether the
\* chain store's and the state store's batch writes succeed; a failed state
\* commit is fatal to the process.
ProduceBlockWith(validators, node, now, seed, io) ==
    IF ~IsProposerWith(validators, node)
    THEN [ok |-> FALSE, err |-> "not the proposer", node |-> node, fatal |-> FALSE,
          block |-> NoBlock, trace |-> <<>>]
    ELSE
    LET limit == IF MaxBlockTxs <= 0 THEN 500 ELSE MaxBlockTxs
        txs == Pending(node.mempool, limit)
        chainTip == node.bc.tip
        prevHash == IF chainTip = NoBlock THEN GenesisHash ELSE chainTip.hash
        nextHeight == IF chainTip = NoBlock THEN 1 ELSE chainTip.header.height + 1
        block == NewBlock(ChainID, nextHeight, prevHash, node.key, txs, now)
        exec == ExecuteBlock(node.state, block, seed)
    IN  IF ~exec.ok
        THEN [ok |-> FALSE, err |-> "execute block", fatal |-> FALSE,
              node |-> [node EXCEPT !.state = exec.st],
              block |-> block, trace |-> <<>>]
        ELSE
        LET rooted == [block EXCEPT !.header.state_root = ComputeRoot(exec.st, seed[1])]
            signedBlock == BlockSign(rooted, node.key)
            added == AddBlock(node.bc, signedBlock, io.store)
        IN  IF ~added.ok
            THEN [ok |-> FALSE, err |-> "add block", fatal |-> FALSE,
                  node |-> [node EXCEPT !.state = exec.st],
                  block |-> signedBlock,
                  trace |-> <<Call("AddBlock", signedBlock, FALSE)>>]
            ELSE
            LET committed == Commit(exec.st, io.state)
            IN  IF ~committed.ok
                THEN [ok |-> FALSE, err |-> "state commit failed", fatal |-> TRUE,
                      node |-> [node EXCEPT !.state = committed.st, !.bc = added.st],
                      block |-> signedBlock,
                      trace |-> <<Call("AddBlock", signedBlock, TRUE),
                                  Call("Commit", signedBlock, FALSE)>>]
                ELSE [ok |-> TRUE, err |-> "none", fatal |-> FALSE,
                      node |-> [node EXCEPT
                                  !.state = committed.st,
                                  !.bc = added.st,
                                  !.mempool = MempoolRemove(@, {txs[i].id : i \in DOMAIN txs})],
                      block |-> signedBlock,
                      trace |-> <<Call("AddBlock", signedBlock, TRUE),
                                  Call("Commit", signedBlock, TRUE)>>]

ProduceBlock(node, now, seed, io) == ProduceBlockWith(Validators, node, now, seed, io)

\* ValidateBlock at clock reading now: "none" or the error.
\* A negative index ends the handler with a run-time panic, which the read
\* loop recovers from.
ValidateBlockWith(validators, bc, block, now) ==
    IF Len(validators) = 0 THEN "no validators configured"
    ELSE IF block.header.chain_id # ChainID THEN "chain ID mismatch"
    ELSE IF ProposerIndex(validators, block.header.height) < 0
         THEN "panic: index out of range"
    ELSE IF block.header.proposer
              # validators[ProposerIndex(validators, block.header.height) + 1]
         THEN "wrong proposer"
    ELSE IF ~PubKeyFromHexOk(block.header.proposer) THEN "invalid proposer pubkey"
    ELSE IF ~BlockVerify(block, block.header.proposer) THEN "block signature invalid"
    ELSE IF block.header.tx_root # ComputeTxRoot(block.transactions) THEN "tx_root mismatch"
    ELSE IF block.header.timestamp > now + maxBlockTimeDrift
         THEN "block timestamp too far in future"
    ELSE IF bc.tip = NoBlock
         THEN IF ~IsGenesisHash(block.header.prev_hash)
              THEN "first block must reference genesis prev-hash"
              ELSE "none"
    ELSE IF block.header.prev_hash # bc.tip.hash THEN "prev_hash mismatch"
    ELSE IF block.header.height # bc.tip.header.height + 1 THEN "height mismatch"
    ELSE IF block.header.timestamp < bc.tip.header.timestamp
         THEN "block timestamp before previous block"
    ELSE "none"

ValidateBlock(bc, block, now) == ValidateBlockWith(Validators, bc, block, now)

(***************************************************************************)
(* Block sync (network.Syncer).                                            *)
(***************************************************************************)
NoFault == [kind |-> "none", at |-> 0]
StoreOk(fault, i) == ~(fault.kind = "store" /\ fault.at = i)
StateOk(fault, i) == ~(fault.kind = "state" /\ fault.at = i)

\* What handleBlocks did with one block of the batch.
Entry(i, b, outcome, err, pre, post) ==
    [index |-> i, block |-> b, outcome |-> outcome, err |-> err,
     pre |-> pre.state, preTip |-> pre.bc.tip,
     post |-> post.state, postTip |-> post.bc.tip]

\* The loop of handleBlocks from the i-th block of the batch on.  run is
\* [node, log, trace, fatal]: the node, one log entry per block the loop
\* reached, the store calls made, and whether the process was terminated.
RECURSIVE handleBlocksLoop(_, _, _, _, _, _, _)
handleBlocksLoop(validators, run, blocks, i, now, seed, fault) ==
    IF i > Len(blocks) THEN run
    ELSE
    LET node == run.node
        b == blocks[i]
        verdict == ValidateBlockWith(validators, node.bc, b, now)
    IN  IF verdict # "none"
        THEN [run EXCEPT !.log = Append(@, Entry(i, b, "invalid", verdict, node, node))]
        ELSE
        LET snap == Snapshot(node.state)
            exec == ExecuteBlock(snap.st, b, seed)
            reverted == RevertToSnapshot(exec.st, snap.id)
            back == [node EXCEPT !.state = reverted.st]
        IN  IF ~exec.ok
            THEN IF ~reverted.ok
                 THEN [run EXCEPT !.fatal = TRUE, !.node = back,
                           !.log = Append(@, Entry(i, b, "fatal", "revert failed", node, back))]
                 ELSE handleBlocksLoop(validators,
                          [run EXCEPT !.node = back,
                               !.log = Append(@, Entry(i, b, "exec_failed", exec.err, node, back))],
                          blocks, i + 1, now, seed, fault)
            ELSE
            LET computedRoot == ComputeRoot(exec.st, seed[1])
            IN  IF b.header.state_root # EmptyStr /\ computedRoot # b.header.state_root
                THEN IF ~reverted.ok
                     THEN [run EXCEPT !.fatal = TRUE, !.node = back,
                               !.log = Append(@, Entry(i, b, "fatal", "revert failed", node, back))]
                     ELSE [run EXCEPT !.node = back,
                               !.log = Append(@, Entry(i, b, "root_mismatch",
                                                       "state root mismatch", node, back))]
                ELSE
                LET added == AddBlock(node.bc, b, StoreOk(fault, i))
                    t1 == Append(run.trace, Call("AddBlock", b, added.ok))
                IN  IF ~added.ok
                    THEN IF ~reverted.ok
                         THEN [run EXCEPT !.fatal = TRUE, !.node = back, !.trace = t1,
                                   !.log = Append(@, Entry(i, b, "fatal", "revert failed",
                                                           node, back))]
                         ELSE handleBlocksLoop(validators,
                                  [run EXCEPT !.node = back, !.trace = t1,
                                       !.log = Append(@, Entry(i, b, "add_failed", added.err,
                                                               node, back))],
                                  blocks, i + 1, now, seed, fault)
                    ELSE
                    LET committed == Commit(exec.st, StateOk(fault, i))
                        after == [node EXCEPT !.state = committed.st, !.bc = added.st]
                        t2 == Append(t1, Call("Commit", b, committed.ok))
                    IN  IF ~committed.ok
                        THEN [run EXCEPT !.fatal = TRUE, !.node = after, !.trace = t2,
                                  !.log = Append(@, Entry(i, b, "fatal", "state commit failed",
                                                          node, after))]
                        ELSE handleBlocksLoop(validators,
                                 [run EXCEPT !.node = after, !.trace = t2,
                                      !.log = Append(@, Entry(i, b, "applied", "none",
                                                              node, after))],
                                 blocks, i + 1, now, seed, fault)

handleBlocksWith(validators, node, blocks, now, seed, fault) ==
    handleBlocksLoop(validators,
                     [node |-> node, log |-> <<>>, trace |-> <<>>, fatal |-> FALSE],
                     blocks, 1, now, seed, fault)

handleBlocks(node, blocks, now, seed, fault) ==
    handleBlocksWith(Validators, node, blocks, now, seed, fault)

(***************************************************************************)
(* Genesis (config.CreateGenesisBlock) and node start-up (main).           *)
(***************************************************************************)
Times == 1 .. MaxTime

\* cfg.Genesis.Alloc: any map from public keys to balances.
GenesisAllocs ==
    { (<<1>> :> 3 @@ <<2>> :> 2),
      (<<1>> :> 2 @@ <<2>> :> MaxU) }

RECURSIVE CreditAlloc(_, _, _)
CreditAlloc(s, alloc, order) ==
    IF order = <<>> THEN s
    ELSE CreditAlloc(SetAccount(s, [address |-> Head(order),
                                    balance |-> alloc[Head(order)], nonce |-> 0]),
                     alloc, Tail(order))

\* The result is the committed state and the signed block #0.
CreateGenesisBlock(alloc, s, proposerKey, now) ==
    LET credited == CreditAlloc(s, alloc, MapOrder(DOMAIN alloc, 0))
        stateRoot == ComputeRoot(credited, 0)
        block == NewBlock(ChainID, 0, GenesisHash, proposerKey, <<>>, now)
        marked == [block EXCEPT !.header.state_root = stateRoot,
                                !.header.tx_root = Hash(ChainID)]
    IN  [state |-> Commit(credited, TRUE).st, block |-> BlockSign(marked, proposerKey)]

\* main: open the stores, create the genesis block, start with an empty mempool.
StartNode(key, alloc, genesisKey) ==
    LET genesis == CreateGenesisBlock(alloc, NewStateDB(EmptyMap), genesisKey, 1)
    IN  [key |-> key,
         state |-> genesis.state,
         bc |-> AddBlock(NewBlockchain(EmptyStore), genesis.block, TRUE).st,
         mempool |-> NewMempool]

\* The goroutines of a node that call into its state store: the consensus
\* ticker (PoA.Run) and one read loop per connected peer (Node.readLoop).
Peers == {"peer1", "peer2"}
TaskIds == {"tick"} \cup Peers
IdleTask == [pc |-> "idle", batch |-> <<>>, i |-> 0, block |-> NoBlock, snapID |-> 0,
             why |-> "none"]
IdleTasks == [t \in TaskIds |-> IdleTask]

\* A peer of node 1 as NewPeer returns it, over an established connection:
\* peer is the Peer's closed flag and the holder of its mutex, conn the
\* connection, wire the bytes written to it, inbox and outbox the messages
\* on their way to node 1 and to the remote node.
NewNet == [peer |-> [closed |-> FALSE, mu |-> "none"],
           conn |-> [closed |-> FALSE, broken |-> FALSE],
           wire |-> <<>>, inbox |-> <<>>, outbox |-> <<>>]

\* Either every data directory was seeded with the bootstrap node's genesis
\* block, or every node created its own.
GenesisKeys == {[n \in Nodes |-> Validators[1]], [n \in Nodes |-> Validators[n]]}

Init ==
    \E alloc \in GenesisAllocs, genesisKey \in GenesisKeys :
        /\ nodes = [n \in Nodes |-> StartNode(Validators[n], alloc, genesisKey[n])]
        /\ alive = [n \in Nodes |-> TRUE]
        /\ last = [op |-> "start"]
        /\ applied = [k \in Keys |-> 0]
        /\ kinds = {}
        /\ steps = 0
        /\ tasks = IdleTasks
        /\ marks = <<>>
        /\ cfg = [validators |-> Validators]
        /\ hist = <<>>
        /\ net = NewNet

(***************************************************************************)
(* The executor on its own: ExecuteTx and Commit called on node 1's state  *)
(* with transactions of every kind.  A behaviour applies transactions of   *)
(* one family of kinds, commits once at most, and ends with the first call *)
(* that returns an error.                                                  *)
(***************************************************************************)
Families ==
    { {"transfer"},
      {"register_template", "mint_asset", "burn_asset", "transfer_asset",
       "list_market", "buy_market"},
      {"session_open", "session_result"} }

IDsUnder(s, prefix) == {Tail(k) : k \in {j \in DOMAIN Merged(s) : Head(j) = prefix}}

TransferPayloads ==
    {[to |-> t, amount |-> 1] : t \in {<<1>>, <<2>>, EmptyStr}} \cup {[to |-> <<2>>, amount |-> 0]}
TemplatePayloads ==
    {[id |-> <<1>>, tradeable |-> TRUE], [id |-> <<1>>, tradeable |-> FALSE],
     [id |-> EmptyStr, tradeable |-> TRUE]}
MintPayloads ==
    {[template_id |-> <<1>>, owner |-> EmptyStr], [template_id |-> <<1>>, owner |-> <<2>>],
     [template_id |-> <<1>>, owner |-> BadKeyHex], [template_id |-> EmptyStr, owner |-> EmptyStr]}
BurnPayloads(s) == {[asset_id |-> a] : a \in IDsUnder(s, prefixAsset) \cup {<<0>>}}
TransferAssetPayloads(s) ==
    {[asset_id |-> a, to |-> t] : a \in IDsUnder(s, prefixAsset), t \in {<<3>>, BadKeyHex}}
        \cup {[asset_id |-> <<0>>, to |-> <<3>>], [asset_id |-> <<0>>, to |-> EmptyStr]}
ListPayloads(s) ==
    {[asset_id |-> a, price |-> 1] : a \in IDsUnder(s, prefixAsset) \cup {<<0>>}}
        \cup {[asset_id |-> <<0>>, price |-> 0]}
BuyPayloads(s) == {[listing_id |-> l] : l \in IDsUnder(s, prefixListing) \cup {<<0>>}}
SessionOpenPayloads ==
    {[session_id |-> <<1>>, players |-> << <<1>>, <<2>> >>, stakes |-> 1],
     [session_id |-> <<1>>, players |-> << <<1>> >>, stakes |-> 1],
     [session_id |-> <<1>>, players |-> << <<1>> >>, stakes |-> 0],
     [session_id |-> <<1>>, players |-> << <<3>> >>, stakes |-> 1],
     [session_id |-> <<1>>, players |-> <<>>, stakes |-> 1],
     [session_id |-> EmptyStr, players |-> << <<1>> >>, stakes |-> 1]}
Outcomes ==
    {EmptyMap, (<<2>> :> 1), (<<1>> :> 1 @@ <<2>> :> 1), (<<1>> :> 2 @@ <<3>> :> 1),
     (<<2>> :> 1 @@ <<3>> :> 1)}
SessionResultPayloads ==
    {[session_id |-> <<1>>, outcome |-> o] : o \in Outcomes}
        \cup {[session_id |-> <<0>>, outcome |-> EmptyMap]}

PayloadsOf(typ, s) ==
    CASE typ = "transfer" -> TransferPayloads
      [] typ = "register_template" -> TemplatePayloads
      [] typ = "mint_asset" -> MintPayloads
      [] typ = "burn_asset" -> BurnPayloads(s)
      [] typ = "transfer_asset" -> TransferAssetPayloads(s)
      [] typ = "list_market" -> ListPayloads(s)
      [] typ = "buy_market" -> BuyPayloads(s)
      [] typ = "session_open" -> SessionOpenPayloads
      [] typ = "session_result" -> SessionResultPayloads
      [] OTHER -> {[to |-> <<1>>, amount |-> 1]}

\* The senders, fees, signers and iteration orders tried with each kind.
SendersOf(typ) ==
    CASE typ = "transfer" -> Keys
      [] typ \in {"burn_asset", "list_market", "buy_market", "session_result"} ->
            {<<1>>, <<2>>}
      [] OTHER -> {<<1>>}
FeesOf(typ, from) ==
    IF typ \in {"transfer", "session_open"} \/ from = ValidatorAt(nodes[1].bc.height + 1)
    THEN {0, 1}
    ELSE IF typ \in {"register_template", "transfer_asset"} THEN {1}
    ELSE {0}
SeedsFor(typ) == IF typ = "session_result" THEN Seeds ELSE {<<0, 0>>}
SignersFor(typ, from) == IF typ = "transfer" THEN {from, <<1>>} ELSE {from}

\* The block a transaction is executed in: the next block of node 1's chain.
BlockUnderExecution(tx) ==
    LET chainTip == nodes[1].bc.tip
    IN  NewBlock(ChainID, chainTip.header.height + 1, chainTip.hash,
                 ValidatorAt(chainTip.header.height + 1), <<tx>>, 1)

Running == steps < MaxSteps /\ (last.op \in {"ExecuteTx", "Commit"} => last.ok)

\* One call of ExecuteTx on tx; replay tells that tx is the one just applied.
CallExecuteTx(tx, seed, replay) ==
    /\ Running
    /\ \E res \in {ExecuteTx(nodes[1].state, BlockUnderExecution(tx), tx, seed)} :
        /\ res.ok => \E family \in Families :
                        (kinds \cup {tx.type}) \ {"commit"} \subseteq family
        /\ steps' = steps + 1
        /\ nodes' = [nodes EXCEPT ![1].state = res.st]
        /\ applied' = IF res.ok THEN [applied EXCEPT ![tx.from] = @ + 1] ELSE applied
        /\ kinds' = IF res.ok THEN kinds \cup {tx.type} ELSE kinds
        /\ last' = [op |-> "ExecuteTx", ok |-> res.ok, err |-> res.err, tx |-> tx,
                    pre |-> nodes[1].state, replay |-> replay]
        /\ UNCHANGED <<alive, tasks, marks, cfg, hist, net>>

\* One call of Commit on the state store; ioOk is whether the batch write succeeds.
CallCommit(ioOk) ==
    /\ steps < MaxSteps
    /\ last.op = "ExecuteTx"
    /\ "commit" \notin kinds
    /\ \E res \in {Commit(nodes[1].state, ioOk)} :
        /\ steps' = steps + 1
        /\ nodes' = [nodes EXCEPT ![1].state = res.st]
        /\ kinds' = kinds \cup {"commit"}
        /\ last' = [op |-> "Commit", ok |-> res.ok, pre |-> nodes[1].state]
        /\ UNCHANGED <<alive, applied, tasks, marks, cfg, hist, net>>

NextExec ==
    \/ /\ Running
       /\ \E typ \in TxTypes \cup {"unknown"} :
            \E from \in SendersOf(typ), payload \in PayloadsOf(typ, nodes[1].state) :
            \E fee \in FeesOf(typ, from),
               signer \in SignersFor(typ, from),
               seed \in SeedsFor(typ) :
            \E tx \in {TxSign(NewTransaction(typ, from,
                            GetAccount(nodes[1].state, from).nonce, fee, 1, payload),
                            signer)} :
                   CallExecuteTx(tx, seed, FALSE)
    \/ \E seed \in Seeds : last.op = "ExecuteTx" /\ CallExecuteTx(last.tx, seed, TRUE)
    \/ \E ioOk \in BOOLEAN : CallCommit(ioOk)

\* Node 1 as the bootstrap node.
InitExec == Init /\ \A n \in Nodes : nodes[n].bc.tip.header.proposer = Validators[1]

SpecExec == InitExec /\ [][NextExec]_vars

(***************************************************************************)
(* The network: clients submit transactions to the node whose turn it is,  *)
(* the production ticker fires, and peers deliver batches of blocks.  A     *)
(* delivered batch is made of blocks some node stored, as stored or altered *)
(* on the way.  steps counts the batches delivered.                         *)
(***************************************************************************)
MaxDeliveries == 1      \* batches delivered in a behaviour

x0 == TxSign(NewTransaction("transfer", <<1>>, 0, 0, 1, [to |-> <<2>>, amount |-> 1]), <<1>>)
x0Later == TxSign(NewTransaction("transfer", <<1>>, 0, 0, 2, [to |-> <<2>>, amount |-> 1]), <<1>>)
sOpen ==
    TxSign(NewTransaction("session_open", <<2>>, 0, 0, 1,
               [session_id |-> <<1>>, players |-> << <<1>>, <<2>> >>, stakes |-> 1]), <<2>>)
sResult ==
    TxSign(NewTransaction("session_result", <<2>>, 1, 0, 1,
               [session_id |-> <<1>>, outcome |-> (<<1>> :> 1 @@ <<2>> :> 1)]), <<2>>)
NodeTxs == {x0, x0Later, sOpen, sResult}

\* Every block held by some node's chain store above the genesis block.
StoredBlocks ==
    UNION {{nodes[m].bc.store.blocks[h] : h \in DOMAIN nodes[m].bc.store.blocks} : m \in Nodes}
ServedBlocks == {b \in StoredBlocks : b.header.height >= 1}

ReplaceLast(txs, tx) == [txs EXCEPT ![Len(txs)] = tx]

\* The block b as a peer may deliver it: as stored; with a header field, the
\* hash or the signature altered; signed anew by a key that is no validator;
\* or with its transaction list altered (a transaction dropped, a field of a
\* transaction changed, a transaction replaced by another signed one that
\* carries the id of the original).
Variants(b) ==
    {b,
     [b EXCEPT !.header.state_root = EmptyStr],
     [b EXCEPT !.hash = ComputeHash([b EXCEPT !.header.height = @ + 1])],
     [b EXCEPT !.signature = CryptoSign(<<3>>, b.hash)],
     BlockSign([b EXCEPT !.header.proposer = <<3>>], <<3>>)}
    \cup (IF b.transactions = <<>> THEN {}
          ELSE LET txs == b.transactions
                   final == txs[Len(txs)]
               IN  {[b EXCEPT !.transactions = Tail(txs)],
                    [b EXCEPT !.transactions = ReplaceLast(txs, [final EXCEPT !.fee = 1 - @])]}
                   \cup {[b EXCEPT !.transactions = ReplaceLast(txs, [y EXCEPT !.id = final.id])]
                            : y \in NodeTxs \ {final}})

Batches ==
    UNION {{<<v>> : v \in Variants(b)} \cup {<<v, b>> : v \in Variants(b)} : b \in ServedBlocks}

Faults(batch) ==
    {NoFault} \cup {[kind |-> k, at |-> i] : k \in {"store", "state"}, i \in 1 .. Len(batch)}

IoOutcomes ==
    {[store |-> TRUE, state |-> TRUE], [store |-> FALSE, state |-> TRUE],
     [store |-> TRUE, state |-> FALSE]}

\* A client's transaction reaches the mempool of node n (Mempool.Add).
SubmitTx(n, tx, now) ==
    /\ alive[n]
    /\ IsProposer(nodes[n])
    /\ nodes[n].bc.height < MaxHeight
    /\ Cardinality(DOMAIN nodes[n].mempool.txs) < MaxPool
    /\ \E res \in {MempoolAdd(nodes[n].mempool, tx, now)} :
           /\ nodes' = [nodes EXCEPT ![n].mempool = res.st]
           /\ last' = [op |-> "Add", node |-> n, ok |-> res.ok, err |-> res.err]
    /\ UNCHANGED <<alive, applied, kinds, steps, tasks, marks, cfg, hist, net>>

\* One tick of PoA.Run on node n.
Tick(n, now, seed, io) ==
    /\ alive[n]
    /\ nodes[n].bc.height < MaxHeight
    /\ IsProposer(nodes[n])
    /\ \E res \in {ProduceBlock(nodes[n], now, seed, io)} :
           /\ nodes' = [nodes EXCEPT ![n] = res.node]
           /\ alive' = [alive EXCEPT ![n] = ~res.fatal]
           /\ last' = [op |-> "ProduceBlock", node |-> n, ok |-> res.ok, err |-> res.err,
                       fatal |-> res.fatal, pre |-> nodes[n], block |-> res.block,
                       trace |-> res.trace]
    /\ UNCHANGED <<applied, kinds, steps, tasks, marks, cfg, hist, net>>

\* Node n handles a blocks message (Syncer.handleBlocks).
Deliver(n, batch, now, seed, fault) ==
    /\ alive[n]
    /\ steps < MaxDeliveries
    /\ \E run \in {handleBlocks(nodes[n], batch, now, seed, fault)} :
           /\ nodes' = [nodes EXCEPT ![n] = run.node]
           /\ alive' = [alive EXCEPT ![n] = ~run.fatal]
           /\ last' = [op |-> "handleBlocks", node |-> n, pre |-> nodes[n], batch |-> batch,
                       genuine |-> [i \in DOMAIN batch |-> batch[i] \in ServedBlocks],
                       log |-> run.log, trace |-> run.trace, fatal |-> run.fatal]
    /\ steps' = steps + 1
    /\ UNCHANGED <<applied, kinds, tasks, marks, cfg, hist, net>>

Next ==
    \/ \E n \in Nodes, tx \in NodeTxs, now \in Times : SubmitTx(n, tx, now)
    \/ \E n \in Nodes, now \in Times, seed \in Seeds, io \in IoOutcomes : Tick(n, now, seed, io)
    \/ \E n \in Nodes, batch \in Batches, now \in Times, seed \in Seeds :
           \E fault \in Faults(batch) : Deliver(n, batch, now, seed, fault)

Spec == Init /\ [][Next]_vars

(***************************************************************************)
(* The goroutines of one node.  main starts PoA.Run in a goroutine of its  *)
(* own and Node.readLoop in one goroutine per peer; the RPC server answers *)
(* each request in yet another.  All of them are handed the same StateDB,  *)
(* Blockchain and Mempool.  The chain store and the mempool lock their own *)
(* methods; the state store and the executor hold no lock, and neither     *)
(* ProduceBlock nor handleBlocks takes one.  Node 1 is followed call by    *)
(* call on the state store and the chain store; node 2 produces the blocks *)
(* its peers serve.  steps counts the handlers started on node 1.          *)
(***************************************************************************)
MaxStarts == 3      \* ticks and blocks messages handled by node 1

Subject == 1
SetTask(t, rec) == [tasks EXCEPT ![t] = rec]

\* handleBlocks after the block at position i: the next block, or the end.
NextBlock(task) ==
    IF task.i < Len(task.batch)
    THEN [IdleTask EXCEPT !.pc = "validate", !.batch = task.batch, !.i = task.i + 1]
    ELSE IdleTask

\* handleBlocks returns.
StopBatch == IdleTask

\* readLoop of peer p receives a blocks message and calls handleBlocks.
Receive(p, batch) ==
    /\ alive[Subject]
    /\ steps < MaxStarts
    /\ tasks[p].pc = "idle"
    /\ tasks' = SetTask(p, [IdleTask EXCEPT !.pc = "validate", !.batch = batch, !.i = 1])
    /\ steps' = steps + 1
    /\ last' = [op |-> "readLoop", task |-> p]
    /\ UNCHANGED <<nodes, alive, applied, kinds, marks, cfg, hist, net>>

\* handleBlocks: s.validator.ValidateBlock(b).
SyncValidate(p, now) ==
    /\ alive[Subject]
    /\ tasks[p].pc = "validate"
    /\ \E verdict \in {ValidateBlock(nodes[Subject].bc, tasks[p].batch[tasks[p].i], now)} :
           tasks' = SetTask(p, IF verdict = "none"
                               THEN [tasks[p] EXCEPT !.pc = "snapshot"]
                               ELSE StopBatch)
    /\ last' = [op |-> "ValidateBlock", task |-> p]
    /\ UNCHANGED <<nodes, alive, applied, kinds, steps, marks, cfg, hist, net>>

\* handleBlocks: s.state.Snapshot().
SyncSnapshot(p) ==
    /\ alive[Subject]
    /\ tasks[p].pc = "snapshot"
    /\ \E snap \in {Snapshot(nodes[Subject].state)} :
           /\ nodes' = [nodes EXCEPT ![Subject].state = snap.st]
           /\ tasks' = SetTask(p, [tasks[p] EXCEPT !.pc = "execute", !.snapID = snap.id])
    /\ last' = [op |-> "Snapshot", task |-> p]
    /\ UNCHANGED <<alive, applied, kinds, steps, marks, cfg, hist, net>>

\* handleBlocks: s.exec.ExecuteBlock(b).
SyncExecute(p, seed) ==
    /\ alive[Subject]
    /\ tasks[p].pc = "execute"
    /\ \E res \in {ExecuteBlock(nodes[Subject].state, tasks[p].batch[tasks[p].i], seed)} :
           /\ nodes' = [nodes EXCEPT ![Subject].state = res.st]
           /\ tasks' = SetTask(p, IF res.ok THEN [tasks[p] EXCEPT !.pc = "root"]
                                  ELSE [tasks[p] EXCEPT !.pc = "revert", !.why = "exec"])
    /\ last' = [op |-> "ExecuteBlock", task |-> p]
    /\ UNCHANGED <<alive, applied, kinds, steps, marks, cfg, hist, net>>

\* handleBlocks: s.state.ComputeRoot() and the comparison with the header.
SyncRoot(p, seed) ==
    /\ alive[Subject]
    /\ tasks[p].pc = "root"
    /\ \E root \in {ComputeRoot(nodes[Subject].state, seed)} :
           LET b == tasks[p].batch[tasks[p].i]
           IN  tasks' = SetTask(p, IF b.header.state_root # EmptyStr /\ root # b.header.state_root
                                   THEN [tasks[p] EXCEPT !.pc = "revert", !.why = "root"]
                                   ELSE [tasks[p] EXCEPT !.pc = "add"])
    /\ last' = [op |-> "ComputeRoot", task |-> p]
    /\ UNCHANGED <<nodes, alive, applied, kinds, steps, marks, cfg, hist, net>>

\* handleBlocks: s.bc.AddBlock(b).
SyncAdd(p) ==
    /\ alive[Subject]
    /\ tasks[p].pc = "add"
    /\ \E added \in {AddBlock(nodes[Subject].bc, tasks[p].batch[tasks[p].i], TRUE)} :
           /\ nodes' = [nodes EXCEPT ![Subject].bc = added.st]
           /\ tasks' = SetTask(p, IF added.ok THEN [tasks[p] EXCEPT !.pc = "commit"]
                                  ELSE [tasks[p] EXCEPT !.pc = "revert", !.why = "add"])
    /\ last' = [op |-> "AddBlock", task |-> p]
    /\ UNCHANGED <<alive, applied, kinds, steps, marks, cfg, hist, net>>

\* handleBlocks: s.state.RevertToSnapshot(snapID) on one of the three error
\* paths; a failed revert ends the process (log.Fatalf).
SyncRevert(p) ==
    /\ alive[Subject]
    /\ tasks[p].pc = "revert"
    /\ \E res \in {RevertToSnapshot(nodes[Subject].state, tasks[p].snapID)} :
           /\ nodes' = [nodes EXCEPT ![Subject].state = res.st]
           /\ alive' = [alive EXCEPT ![Subject] = res.ok]
           /\ tasks' = SetTask(p, IF ~res.ok THEN [tasks[p] EXCEPT !.pc = "fatal"]
                                  ELSE IF tasks[p].why = "root" THEN StopBatch
                                  ELSE NextBlock(tasks[p]))
           /\ last' = [op |-> "RevertToSnapshot", task |-> p, ok |-> res.ok]
    /\ UNCHANGED <<applied, kinds, steps, marks, cfg, hist, net>>

\* handleBlocks: s.state.Commit().
SyncCommit(p) ==
    /\ alive[Subject]
    /\ tasks[p].pc = "commit"
    /\ \E res \in {Commit(nodes[Subject].state, TRUE)} :
           /\ nodes' = [nodes EXCEPT ![Subject].state = res.st]
           /\ tasks' = SetTask(p, NextBlock(tasks[p]))
    /\ last' = [op |-> "SyncCommit", task |-> p]
    /\ UNCHANGED <<alive, applied, kinds, steps, marks, cfg, hist, net>>

\* PoA.Run: the ticker fires; ProduceBlock up to core.NewBlock.
TickStart(now) ==
    /\ alive[Subject]
    /\ steps < MaxStarts
    /\ tasks["tick"].pc = "idle"
    /\ IsProposer(nodes[Subject])
    /\ LET node == nodes[Subject]
           limit == IF MaxBlockTxs <= 0 THEN 500 ELSE MaxBlockTxs
           txs == Pending(node.mempool, limit)
           chainTip == node.bc.tip
           prevHash == IF chainTip = NoBlock THEN GenesisHash ELSE chainTip.hash
           nextHeight == IF chainTip = NoBlock THEN 1 ELSE chainTip.header.height + 1
       IN  tasks' = SetTask("tick", [IdleTask EXCEPT
                        !.pc = "execute",
                        !.block = NewBlock(ChainID, nextHeight, prevHash, node.key, txs, now)])
    /\ steps' = steps + 1
    /\ last' = [op |-> "Run", task |-> "tick"]
    /\ UNCHANGED <<nodes, alive, applied, kinds, marks, cfg, hist, net>>

\* ProduceBlock: p.exec.ExecuteBlock(block); an error is returned to Run.
TickExecute(seed) ==
    /\ alive[Subject]
    /\ tasks["tick"].pc = "execute"
    /\ \E res \in {ExecuteBlock(nodes[Subject].state, tasks["tick"].block, seed)} :
           /\ nodes' = [nodes EXCEPT ![Subject].state = res.st]
           /\ tasks' = SetTask("tick", IF res.ok THEN [tasks["tick"] EXCEPT !.pc = "root"]
                                       ELSE IdleTask)
    /\ last' = [op |-> "ExecuteBlock", task |-> "tick"]
    /\ UNCHANGED <<alive, applied, kinds, steps, marks, cfg, hist, net>>

\* ProduceBlock: the header takes p.state.ComputeRoot() and the block is signed.
TickRoot(seed) ==
    /\ alive[Subject]
    /\ tasks["tick"].pc = "root"
    /\ \E root \in {ComputeRoot(nodes[Subject].state, seed)} :
           tasks' = SetTask("tick", [tasks["tick"] EXCEPT
                        !.pc = "add",
                        !.block = BlockSign([@ EXCEPT !.header.state_root = root],
                                            nodes[Subject].key)])
    /\ last' = [op |-> "ComputeRoot", task |-> "tick"]
    /\ UNCHANGED <<nodes, alive, applied, kinds, steps, marks, cfg, hist, net>>

\* ProduceBlock: p.bc.AddBlock(block); an error is returned to Run.
TickAdd ==
    /\ alive[Subject]
    /\ tasks["tick"].pc = "add"
    /\ \E added \in {AddBlock(nodes[Subject].bc, tasks["tick"].block, TRUE)} :
           /\ nodes' = [nodes EXCEPT ![Subject].bc = added.st]
           /\ tasks' = SetTask("tick", IF added.ok THEN [tasks["tick"] EXCEPT !.pc = "commit"]
                                       ELSE IdleTask)
    /\ last' = [op |-> "AddBlock", task |-> "tick"]
    /\ UNCHANGED <<alive, applied, kinds, steps, marks, cfg, hist, net>>

\* ProduceBlock: p.state.Commit(), then the block's transactions leave the mempool.
TickCommit ==
    /\ alive[Subject]
    /\ tasks["tick"].pc = "commit"
    /\ \E res \in {Commit(nodes[Subject].state, TRUE)} :
           LET txs == tasks["tick"].block.transactions
           IN  nodes' = [nodes EXCEPT
                   ![Subject].state = res.st,
                   ![Subject].mempool = MempoolRemove(@, {txs[i].id : i \in DOMAIN txs})]
    /\ tasks' = SetTask("tick", IdleTask)
    /\ last' = [op |-> "TickCommit", task |-> "tick"]
    /\ UNCHANGED <<alive, applied, kinds, steps, marks, cfg, hist, net>>

\* Handler.getBalance: one GetAccount on the shared state store.  committed
\* is the account as the KV store holds it.
GetBalance(address) ==
    /\ alive[Subject]
    /\ \E acc \in {GetAccount(nodes[Subject].state, address)} :
           last' = [op |-> "getBalance", address |-> address, result |-> acc,
                    committed |-> GetAccount(NewStateDB(nodes[Subject].state.db), address),
                    busy |-> {t \in TaskIds : tasks[t].pc # "idle"}]
    /\ UNCHANGED <<nodes, alive, applied, kinds, steps, tasks, marks, cfg, hist, net>>

\* Node.handleTx: a gossiped transaction reaches the mempool of node n.
HandleTx(n, tx, now) ==
    /\ alive[n]
    /\ Cardinality(DOMAIN nodes[n].mempool.txs) < MaxPool
    /\ \E res \in {MempoolAdd(nodes[n].mempool, tx, now)} :
           /\ res.ok
           /\ nodes' = [nodes EXCEPT ![n].mempool = res.st]
    /\ last' = [op |-> "handleTx", node |-> n]
    /\ UNCHANGED <<alive, applied, kinds, steps, tasks, marks, cfg, hist, net>>

\* The blocks message a peer sends: the blocks node 2 holds above genesis.
PeerBatches == {<<b>> : b \in {c \in ServedBlocks : c.header.height = 1}}

NextTasks ==
    \/ SubmitTx(2, x0, 1)
    \/ HandleTx(Subject, sOpen, 1)
    \/ Tick(2, 1, <<0, 0>>, [store |-> TRUE, state |-> TRUE])
    \/ \E p \in Peers, batch \in PeerBatches : Receive(p, batch)
    \/ \E p \in Peers : SyncValidate(p, 1)
    \/ \E p \in Peers : SyncSnapshot(p)
    \/ \E p \in Peers : SyncExecute(p, <<0, 0>>)
    \/ \E p \in Peers : SyncRoot(p, 0)
    \/ \E p \in Peers : SyncAdd(p)
    \/ \E p \in Peers : SyncRevert(p)
    \/ \E p \in Peers : SyncCommit(p)
    \/ TickStart(1)
    \/ TickExecute(<<0, 0>>)
    \/ TickRoot(0)
    \/ TickAdd
    \/ TickCommit
    \/ \E address \in {<<1>>, <<2>>} : GetBalance(address)

\* Both nodes were seeded with the bootstrap node's genesis block.
InitTasks ==
    /\ Init
    /\ \A n \in Nodes : nodes[n].bc.tip.header.proposer = Validators[1]
    /\ GetAccount(nodes[Subject].state, <<2>>).balance < MaxU

SpecTasks == InitTasks /\ [][NextTasks]_vars

(***************************************************************************)
(* The state store on its own: typed sets and deletes, snapshots, reverts, *)
(* commits and root computations called on node 1's StateDB in any order.  *)
(* marks holds, for every snapshot on the stack, what the store read as    *)
(* when the snapshot was taken.  steps counts the calls.                   *)
(***************************************************************************)
MaxStoreSteps == 6      \* calls on the state store in a behaviour

StoreAsset(owner) ==
    [id |-> <<1>>, template_id |-> <<1>>, owner |-> owner, tradeable |-> TRUE,
     minted_at |-> 1, active_listing_id |-> EmptyStr]

\* The typed writes tried: an account, an asset under two owners, a template,
\* a session, a listing, and the deletion of the asset.
Writes ==
    {[op |-> "SetAccount", val |-> [address |-> <<1>>, balance |-> 1, nonce |-> 1]],
     [op |-> "SetAsset", val |-> StoreAsset(<<1>>)],
     [op |-> "SetAsset", val |-> StoreAsset(<<2>>)],
     [op |-> "SetTemplate", val |-> [id |-> <<1>>, tradeable |-> TRUE, creator |-> <<1>>]],
     [op |-> "SetSession", val |-> [id |-> <<1>>, players |-> << <<1>> >>, stakes |-> 0,
                                    status |-> "open", outcome |-> EmptyMap,
                                    created_at |-> 1, closed_at |-> 0]],
     [op |-> "SetListing", val |-> [id |-> <<1>>, asset_id |-> <<1>>, seller |-> <<1>>,
                                    price |-> 1, active |-> TRUE, created_at |-> 1]],
     [op |-> "DeleteAsset", val |-> [id |-> <<1>>]]}

ApplyWrite(s, w) ==
    CASE w.op = "SetAccount" -> SetAccount(s, w.val)
      [] w.op = "SetAsset" -> SetAsset(s, w.val)
      [] w.op = "SetTemplate" -> SetTemplate(s, w.val)
      [] w.op = "SetSession" -> SetSession(s, w.val)
      [] w.op = "SetListing" -> SetListing(s, w.val)
      [] w.op = "DeleteAsset" -> DeleteAsset(s, w.val.id)

\* Every entity read of the store.
ReadAll(s) ==
    [accounts |-> [a \in Keys |-> GetAccount(s, a)],
     asset |-> GetAsset(s, <<1>>),
     template |-> GetTemplate(s, <<1>>),
     session |-> GetSession(s, <<1>>),
     listing |-> GetListing(s, <<1>>)]

Mark(s) == [roots |-> [seed \in 0 .. MaxSeed - 1 |-> ComputeRoot(s, seed)],
            reads |-> ReadAll(s)]

StoreWrite(w) ==
    /\ steps < MaxStoreSteps
    /\ nodes' = [nodes EXCEPT ![1].state = ApplyWrite(@, w)]
    /\ last' = [op |-> "write", pre |-> nodes[1].state]
    /\ steps' = steps + 1
    /\ UNCHANGED <<alive, applied, kinds, tasks, marks, cfg, hist, net>>

StoreSnapshot ==
    /\ steps < MaxStoreSteps
    /\ \E snap \in {Snapshot(nodes[1].state)} :
           /\ nodes' = [nodes EXCEPT ![1].state = snap.st]
           /\ last' = [op |-> "Snapshot", pre |-> nodes[1].state, id |-> snap.id]
    /\ marks' = Append(marks, Mark(nodes[1].state))
    /\ steps' = steps + 1
    /\ UNCHANGED <<alive, applied, kinds, tasks, cfg, hist, net>>

StoreRevert(id) ==
    /\ steps < MaxStoreSteps
    /\ \E res \in {RevertToSnapshot(nodes[1].state, id)} :
           /\ nodes' = [nodes EXCEPT ![1].state = res.st]
           /\ last' = [op |-> "RevertToSnapshot", pre |-> nodes[1].state, id |-> id,
                       ok |-> res.ok,
                       mark |-> IF res.ok THEN marks[id + 1] ELSE Mark(nodes[1].state)]
           /\ marks' = IF res.ok THEN SubSeq(marks, 1, id) ELSE marks
    /\ steps' = steps + 1
    /\ UNCHANGED <<alive, applied, kinds, tasks, cfg, hist, net>>

StoreCommit(ioOk) ==
    /\ steps < MaxStoreSteps
    /\ \E res \in {Commit(nodes[1].state, ioOk)} :
           /\ nodes' = [nodes EXCEPT ![1].state = res.st]
           /\ last' = [op |-> "StoreCommit", pre |-> nodes[1].state, ok |-> res.ok]
           /\ marks' = IF res.ok THEN <<>> ELSE marks
    /\ steps' = steps + 1
    /\ UNCHANGED <<alive, applied, kinds, tasks, cfg, hist, net>>

StoreComputeRoot(seed) ==
    /\ steps < MaxStoreSteps
    /\ \E res \in {ComputeRootCall(nodes[1].state, seed)} :
           /\ nodes' = [nodes EXCEPT ![1].state = res.st]
           /\ last' = [op |-> "StoreComputeRoot", pre |-> nodes[1].state, root |-> res.root,
                       again |-> ComputeRootCall(res.st, seed).root]
    /\ steps' = steps + 1
    /\ UNCHANGED <<alive, applied, kinds, tasks, marks, cfg, hist, net>>

NextStore ==
    \/ \E w \in Writes : StoreWrite(w)
    \/ StoreSnapshot
    \/ \E id \in -1 .. Len(nodes[1].state.snapshots) : StoreRevert(id)
    \/ \E ioOk \in BOOLEAN : StoreCommit(ioOk)
    \/ \E seed \in 0 .. MaxSeed - 1 : StoreComputeRoot(seed)

InitStore == InitExec /\ GetAccount(nodes[1].state, <<2>>).balance < MaxU

SpecStore == InitStore /\ [][NextStore]_vars

(***************************************************************************)
(* The chain store on its own: AddBlock and ValidateBlock called on node   *)
(* 1's Blockchain, which starts as main finds it over an empty data        *)
(* directory (no tip), with blocks of any height and previous hash.        *)
(* steps counts the AddBlock calls.                                        *)
(***************************************************************************)
MaxChainSteps == 3      \* AddBlock calls in a behaviour
MaxChainHeight == 3     \* largest height of a candidate block

\* The hash of a block this chain does not hold.
ForeignHash == ComputeHash(NewBlock(ChainID, 0, GenesisHash, <<2>>, <<>>, MaxTime + 1))

\* The previous hashes a candidate block may name.
PrevHashes(bc) ==
    {GenesisHash, ForeignHash} \cup (IF bc.tip = NoBlock THEN {} ELSE {bc.tip.hash})

\* Signed, empty candidate blocks, and the genesis block main builds.
ChainBlocks(bc) ==
    { BlockSign(NewBlock(ChainID, h, prev, proposer, <<>>, 1), proposer) :
        h \in 0 .. MaxChainHeight, prev \in PrevHashes(bc), proposer \in {<<1>>, <<2>>} }
    \cup { CreateGenesisBlock(CHOOSE alloc \in GenesisAllocs : alloc[<<2>>] < MaxU,
                              NewStateDB(EmptyMap), Validators[1], 1).block }

ChainAddBlock(block, ioOk) ==
    /\ steps < MaxChainSteps
    /\ \E res \in {AddBlock(nodes[1].bc, block, ioOk)} :
           /\ nodes' = [nodes EXCEPT ![1].bc = res.st]
           /\ last' = [op |-> "Blockchain.AddBlock", pre |-> nodes[1].bc, block |-> block,
                       ioOk |-> ioOk, ok |-> res.ok, err |-> res.err]
    /\ steps' = steps + 1
    /\ UNCHANGED <<alive, applied, kinds, tasks, marks, cfg, hist, net>>

ChainValidateBlock(block, now) ==
    /\ last' = [op |-> "PoA.ValidateBlock", pre |-> nodes[1].bc, block |-> block,
                verdict |-> ValidateBlock(nodes[1].bc, block, now)]
    /\ UNCHANGED <<nodes, alive, applied, kinds, steps, tasks, marks, cfg, hist, net>>

NextChain ==
    \/ \E block \in ChainBlocks(nodes[1].bc), ioOk \in BOOLEAN : ChainAddBlock(block, ioOk)
    \/ \E block \in ChainBlocks(nodes[1].bc) : ChainValidateBlock(block, 1)

InitChain ==
    /\ nodes = [n \in Nodes |->
                  [StartNode(Validators[n],
                             CHOOSE alloc \in GenesisAllocs : alloc[<<2>>] < MaxU,
                             Validators[1])
                     EXCEPT !.bc = NewBlockchain(EmptyStore)]]
    /\ alive = [n \in Nodes |-> TRUE]
    /\ last = [op |-> "start"]
    /\ applied = [k \in Keys |-> 0]
    /\ kinds = {}
    /\ steps = 0
    /\ tasks = IdleTasks
    /\ marks = <<>>
    /\ cfg = [validators |-> Validators]
    /\ hist = <<>>
    /\ net = NewNet

SpecChain == InitChain /\ [][NextChain]_vars

(***************************************************************************)
(* The proposer schedule: nodes started under one validator list, which    *)
(* may be empty, may repeat a key and may name a key no node holds.  Each  *)
(* node calls ProduceBlock on its own chain and ValidateBlock on signed    *)
(* blocks of any height, negative ones included, by any proposer.  steps   *)
(* counts the ProduceBlock calls.                                          *)
(***************************************************************************)
MaxScheduleSteps == 3     \* ProduceBlock calls in a behaviour
MaxScheduleHeight == 3    \* largest height of a candidate block

ValidatorLists ==
    { <<>>, << <<1>> >>, << <<2>> >>, << <<1>>, <<2>> >>, << <<2>>, <<1>> >>,
      << <<1>>, <<1>> >>, << <<3>>, <<1>>, <<2>> >>, << <<1>>, <<2>>, <<1>> >> }

\* Signed, empty blocks on top of the tip.
ScheduleBlocks(bc) ==
    { BlockSign(NewBlock(ChainID, h, bc.tip.hash, proposer, <<>>, bc.tip.header.timestamp),
                proposer) :
        h \in -2 .. MaxScheduleHeight, proposer \in Keys }

ScheduleProduceBlock(n, now) ==
    /\ steps < MaxScheduleSteps
    /\ \E res \in {ProduceBlockWith(cfg.validators, nodes[n], now, <<0, 0>>,
                                    [store |-> TRUE, state |-> TRUE])} :
           /\ nodes' = [nodes EXCEPT ![n] = res.node]
           /\ last' = [op |-> "schedule.ProduceBlock", node |-> n, pre |-> nodes[n].bc,
                       ok |-> res.ok, block |-> res.block]
    /\ steps' = steps + 1
    /\ UNCHANGED <<alive, applied, kinds, tasks, marks, cfg, hist, net>>

ScheduleValidateBlock(n, block, now) ==
    /\ last' = [op |-> "schedule.ValidateBlock", node |-> n, pre |-> nodes[n].bc,
                block |-> block,
                verdict |-> ValidateBlockWith(cfg.validators, nodes[n].bc, block, now)]
    /\ UNCHANGED <<nodes, alive, applied, kinds, steps, tasks, marks, cfg, hist, net>>

NextSchedule ==
    \/ \E n \in Nodes : ScheduleProduceBlock(n, 1)
    \/ \E n \in Nodes : \E block \in ScheduleBlocks(nodes[n].bc) :
           ScheduleValidateBlock(n, block, 1)

InitSchedule ==
    \E validators \in ValidatorLists :
        /\ nodes = [n \in Nodes |->
                      StartNode(<<n>>, CHOOSE alloc \in GenesisAllocs : alloc[<<2>>] < MaxU,
                                <<1>>)]
        /\ alive = [n \in Nodes |-> TRUE]
        /\ last = [op |-> "start"]
        /\ applied = [k \in Keys |-> 0]
        /\ kinds = {}
        /\ steps = 0
        /\ tasks = IdleTasks
        /\ marks = <<>>
        /\ cfg = [validators |-> validators]
        /\ hist = <<>>
        /\ net = NewNet

SpecSchedule == InitSchedule /\ [][NextSchedule]_vars

(***************************************************************************)
(* The mempool on its own: Add, Remove and Pending called on node 1's      *)
(* Mempool, for a pool of capacity PoolCap: Add by the read loops of the   *)
(* peers, in two steps, its checks before the lock and its locked part;    *)
(* Remove and Pending by the ticker, under the lock.  hist logs the Add    *)
(* calls that succeeded and the Remove calls; steps counts the calls       *)
(* started.                                                                *)
(***************************************************************************)
MaxPoolSteps == 5       \* calls on the mempool in a behaviour
PoolCap == 2            \* maxMempoolSize, scaled down

xForged == TxSign(NewTransaction("transfer", <<1>>, 1, 0, 1, [to |-> <<2>>, amount |-> 1]), <<2>>)
xFuture == TxSign(NewTransaction("transfer", <<1>>, 1, 0, 4, [to |-> <<2>>, amount |-> 1]), <<1>>)
PoolTxs == {x0, x0Later, sOpen, xForged, xFuture}

PoolAddChecks(t, tx, now) ==
    /\ steps < MaxPoolSteps
    /\ tasks[t].pc = "idle"
    /\ steps' = steps + 1
    /\ IF AddChecks(tx, now) # "none"
       THEN /\ last' = [op |-> "Add", tx |-> tx, ok |-> FALSE, err |-> AddChecks(tx, now),
                        pre |-> nodes[1].mempool]
            /\ UNCHANGED <<tasks, hist, net>>
       ELSE /\ tasks' = [tasks EXCEPT ![t] = [IdleTask EXCEPT !.pc = "add", !.batch = <<tx>>]]
            /\ UNCHANGED <<last, hist, net>>
    /\ UNCHANGED <<nodes, alive, applied, kinds, marks, cfg, net>>

PoolAddLocked(t) ==
    /\ tasks[t].pc = "add"
    /\ \E res \in {AddLocked(nodes[1].mempool, tasks[t].batch[1], PoolCap)} :
           /\ nodes' = [nodes EXCEPT ![1].mempool = res.st]
           /\ last' = [op |-> "Add", tx |-> tasks[t].batch[1], ok |-> res.ok,
                       err |-> res.err, pre |-> nodes[1].mempool]
           /\ hist' = IF res.ok THEN Append(hist, [op |-> "Add", tx |-> tasks[t].batch[1]])
                      ELSE hist
    /\ tasks' = [tasks EXCEPT ![t] = IdleTask]
    /\ UNCHANGED <<alive, applied, kinds, steps, marks, cfg, net>>

PoolRemove(ids) ==
    /\ steps < MaxPoolSteps
    /\ steps' = steps + 1
    /\ nodes' = [nodes EXCEPT ![1].mempool = MempoolRemove(@, ids)]
    /\ last' = [op |-> "Remove", ids |-> ids, pre |-> nodes[1].mempool]
    /\ hist' = Append(hist, [op |-> "Remove", ids |-> ids])
    /\ UNCHANGED <<alive, applied, kinds, tasks, marks, cfg, net>>

PoolPending(n) ==
    /\ steps < MaxPoolSteps
    /\ steps' = steps + 1
    /\ last' = [op |-> "Pending", n |-> n, result |-> Pending(nodes[1].mempool, n),
                pre |-> nodes[1].mempool]
    /\ UNCHANGED <<nodes, alive, applied, kinds, tasks, marks, cfg, hist, net>>

NextPool ==
    \/ \E t \in Peers, tx \in PoolTxs : PoolAddChecks(t, tx, 1)
    \/ \E t \in Peers : PoolAddLocked(t)
    \/ \E ids \in SUBSET {tx.id : tx \in {x0, x0Later, sOpen}} : PoolRemove(ids)
    \/ \E n \in 0 .. 3 : PoolPending(n)

SpecPool == InitStore /\ [][NextPool]_vars

(***************************************************************************)
(* The asset market: mint, list, buy, transfer and burn transactions       *)
(* executed on node 1's state, failed ones included, with commits in       *)
(* between.  The chain starts with one tradeable template registered by    *)
(* an earlier transaction.  steps counts the ExecuteTx calls.              *)
(***************************************************************************)
MaxMarketSteps == 4     \* ExecuteTx calls in a behaviour

MaxAssets == 2          \* assets minted in a behaviour

MarketTypes == {"mint_asset", "list_market", "buy_market", "transfer_asset", "burn_asset"}

\* The payloads tried with each kind: every asset and listing of the state,
\* and an id that names nothing.
MarketPayloads(typ, s) ==
    CASE typ = "mint_asset" ->
            IF Cardinality(IDsUnder(s, prefixAsset)) < MaxAssets
            THEN {[template_id |-> <<1>>, owner |-> EmptyStr]} ELSE {}
      [] typ = "list_market" ->
            {[asset_id |-> a, price |-> price] :
                a \in IDsUnder(s, prefixAsset) \cup {<<0>>}, price \in {1, 3}}
      [] typ = "buy_market" ->
            {[listing_id |-> l] : l \in IDsUnder(s, prefixListing) \cup {<<0>>}}
      [] typ = "transfer_asset" ->
            {[asset_id |-> a, to |-> <<2>>] : a \in IDsUnder(s, prefixAsset)}
      [] OTHER -> {[asset_id |-> a] : a \in IDsUnder(s, prefixAsset)}

\* The transaction that registered the template.
tRegister ==
    TxSign(NewTransaction("register_template", <<1>>, 0, 0, 1,
                          [id |-> <<1>>, tradeable |-> TRUE]), <<1>>)

MarketTx(tx) ==
    /\ steps < MaxMarketSteps
    /\ \E res \in {ExecuteTx(nodes[1].state, BlockUnderExecution(tx), tx, <<0, 0>>)} :
        /\ steps' = steps + 1
        /\ nodes' = [nodes EXCEPT ![1].state = res.st]
        /\ applied' = IF res.ok THEN [applied EXCEPT ![tx.from] = @ + 1] ELSE applied
        /\ last' = [op |-> "ExecuteTx", ok |-> res.ok, err |-> res.err, tx |-> tx,
                    pre |-> nodes[1].state, replay |-> FALSE]
        /\ UNCHANGED <<alive, kinds, tasks, marks, cfg, hist, net>>

MarketCommit ==
    /\ nodes[1].state.dirty # EmptyMap
    /\ nodes' = [nodes EXCEPT ![1].state = Commit(@, TRUE).st]
    /\ last' = [op |-> "Commit", ok |-> TRUE, pre |-> nodes[1].state]
    /\ UNCHANGED <<alive, applied, kinds, steps, tasks, marks, cfg, hist, net>>

NextMarket ==
    \/ \E typ \in MarketTypes :
         \E from \in {<<1>>, <<2>>}, payload \in MarketPayloads(typ, nodes[1].state) :
         \E tx \in {TxSign(NewTransaction(typ, from,
                               GetAccount(nodes[1].state, from).nonce, 0, 1, payload),
                           from)} :
             MarketTx(tx)
    \/ MarketCommit

InitMarket ==
    \E alloc \in GenesisAllocs :
    \E registered \in {ExecuteTx(StartNode(<<1>>, alloc, <<1>>).state,
                                 NewBlock(ChainID, 1, GenesisHash, <<2>>, <<tRegister>>, 1),
                                 tRegister, <<0, 0>>)} :
        /\ registered.ok
        /\ nodes = [n \in Nodes |->
                      [StartNode(<<n>>, alloc, <<1>>)
                         EXCEPT !.state = IF n = 1 THEN Commit(registered.st, TRUE).st ELSE @]]
        /\ alive = [n \in Nodes |-> TRUE]
        /\ last = [op |-> "start"]
        /\ applied = [k \in Keys |-> IF k = <<1>> THEN 1 ELSE 0]
        /\ kinds = {}
        /\ steps = 0
        /\ tasks = IdleTasks
        /\ marks = <<>>
        /\ cfg = [validators |-> Validators]
        /\ hist = <<>>
        /\ net = NewNet

SpecMarket == InitMarket /\ [][NextMarket]_vars

(***************************************************************************)
(* A peer connection (network.Peer): Send called by the goroutines of the  *)
(* node on one Peer, and Close.  A Send takes the Peer's mutex, tests the  *)
(* closed flag and makes two writes on the connection, each its own step.  *)
(* wire holds what reached the connection, hist every Write call and the   *)
(* Close; steps counts the Send calls.                                     *)
(***************************************************************************)
MaxSends == 3           \* Send calls in a behaviour

\* p.mu.Lock() goes through with the mutex ignored.
MutexIgnored(peer) == TRUE

\* p.mu.Lock() goes through when no goroutine holds the mutex.
MutexFree(peer) == peer.mu = "none"

\* What a Write on the connection can do: write everything, write nothing
\* and fail, or write a part and fail.  A closed or failed connection takes
\* no more bytes.
WriteOutcomes == {"ok", "fail", "partial"}

ConnWrite(n, chunk, io) ==
    IF n.conn.closed \/ n.conn.broken THEN [n |-> n, ok |-> FALSE]
    ELSE IF io = "ok" THEN [n |-> [n EXCEPT !.wire = Append(@, chunk)], ok |-> TRUE]
    ELSE IF io = "partial"
         THEN [n |-> [n EXCEPT !.wire = Append(@, [chunk EXCEPT !.whole = FALSE]),
                               !.conn.broken = TRUE],
               ok |-> FALSE]
    ELSE [n |-> [n EXCEPT !.conn.broken = TRUE], ok |-> FALSE]

\* Send up to the test of p.closed, under the mutex.
SendLock(t) ==
    /\ steps < MaxSends
    /\ tasks[t].pc = "idle"
    /\ MutexFree(net.peer)
    /\ steps' = steps + 1
    /\ IF net.peer.closed
       THEN /\ last' = [op |-> "Send", task |-> t, send |-> steps + 1, ok |-> FALSE,
                        err |-> "peer closed"]
            /\ UNCHANGED <<tasks, net>>
       ELSE /\ tasks' = SetTask(t, [IdleTask EXCEPT !.pc = "header", !.i = steps + 1])
            /\ net' = [net EXCEPT !.peer.mu = t]
            /\ UNCHANGED last
    /\ UNCHANGED <<nodes, alive, applied, kinds, marks, cfg, hist>>

\* Send: p.conn.Write(header[:]); an error is returned at once.
SendHeader(t, io) ==
    /\ tasks[t].pc = "header"
    /\ \E res \in {ConnWrite(net, [send |-> tasks[t].i, part |-> "header", whole |-> TRUE],
                             io)} :
           /\ net' = IF res.ok THEN res.n ELSE [res.n EXCEPT !.peer.mu = "none"]
           /\ tasks' = SetTask(t, IF res.ok THEN [tasks[t] EXCEPT !.pc = "body"]
                                  ELSE IdleTask)
           /\ last' = IF res.ok THEN last
                      ELSE [op |-> "Send", task |-> t, send |-> tasks[t].i, ok |-> FALSE,
                            err |-> "write"]
    /\ hist' = Append(hist, [op |-> "Write", send |-> tasks[t].i,
                             afterClose |-> net.peer.closed])
    /\ UNCHANGED <<nodes, alive, applied, kinds, steps, marks, cfg>>

\* Send: p.conn.Write(data), and the deferred Unlock.
SendBody(t, io) ==
    /\ tasks[t].pc = "body"
    /\ \E res \in {ConnWrite(net, [send |-> tasks[t].i, part |-> "body", whole |-> TRUE],
                             io)} :
           /\ net' = [res.n EXCEPT !.peer.mu = "none"]
           /\ last' = [op |-> "Send", task |-> t, send |-> tasks[t].i, ok |-> res.ok,
                       err |-> IF res.ok THEN "none" ELSE "write"]
    /\ tasks' = SetTask(t, IdleTask)
    /\ hist' = Append(hist, [op |-> "Write", send |-> tasks[t].i,
                             afterClose |-> net.peer.closed])
    /\ UNCHANGED <<nodes, alive, applied, kinds, steps, marks, cfg>>

\* Peer.Close, under the mutex.
PeerClose ==
    /\ MutexFree(net.peer)
    /\ ~net.peer.closed
    /\ net' = [net EXCEPT !.peer.closed = TRUE, !.conn.closed = TRUE]
    /\ hist' = Append(hist, [op |-> "Close"])
    /\ last' = [op |-> "Close"]
    /\ UNCHANGED <<nodes, alive, applied, kinds, steps, tasks, marks, cfg>>

NextPeer ==
    \/ \E t \in TaskIds : SendLock(t)
    \/ \E t \in TaskIds, io \in WriteOutcomes : SendHeader(t, io)
    \/ \E t \in TaskIds, io \in WriteOutcomes : SendBody(t, io)
    \/ PeerClose

SpecPeer == InitStore /\ [][NextPeer]_vars

(***************************************************************************)
(* The ticks of PoA.Run on a node that is the only validator, so that it   *)
(* is the proposer of every height.  Clients submit transactions to its    *)
(* mempool; the ticker fires for ever and neither store fails.  steps      *)
(* counts the submitted transactions.                                      *)
(***************************************************************************)
MaxLiveSubmits == 3     \* transactions submitted in a behaviour
MaxLiveHeight == 2      \* highest block height produced

LiveSubmit(tx) ==
    /\ steps < MaxLiveSubmits
    /\ \E res \in {MempoolAdd(nodes[Subject].mempool, tx, 1)} :
           /\ nodes' = [nodes EXCEPT ![Subject].mempool = res.st]
           /\ last' = [op |-> "Add", ok |-> res.ok, err |-> res.err]
    /\ steps' = steps + 1
    /\ UNCHANGED <<alive, applied, kinds, tasks, marks, cfg, hist, net>>

\* PoA.Run: the ticker's channel delivers (case <-ticker.C).
TickerFire ==
    /\ tasks["tick"].pc = "idle"
    /\ alive[Subject]
    /\ nodes[Subject].bc.height < MaxLiveHeight
    /\ tasks' = SetTask("tick", [IdleTask EXCEPT !.pc = "fired"])
    /\ UNCHANGED <<nodes, alive, last, applied, kinds, steps, marks, cfg, hist, net>>

\* PoA.Run: the body of the case, IsProposer and ProduceBlock, whose error
\* is logged.
LiveTick ==
    /\ tasks["tick"].pc = "fired"
    /\ \E res \in {ProduceBlockWith(cfg.validators, nodes[Subject], 1, <<0, 0>>,
                                    [store |-> TRUE, state |-> TRUE])} :
           /\ nodes' = [nodes EXCEPT ![Subject] = res.node]
           /\ alive' = [alive EXCEPT ![Subject] = ~res.fatal]
           /\ last' = [op |-> "live.ProduceBlock", ok |-> res.ok, err |-> res.err,
                       txs |-> res.block.transactions]
    /\ tasks' = SetTask("tick", IdleTask)
    /\ UNCHANGED <<applied, kinds, steps, marks, cfg, hist, net>>

NextLive ==
    \/ \E tx \in NodeTxs : LiveSubmit(tx)
    \/ TickerFire
    \/ LiveTick

InitLive ==
    /\ nodes = [n \in Nodes |->
                  StartNode(<<n>>, CHOOSE alloc \in GenesisAllocs : alloc[<<2>>] < MaxU,
                            <<1>>)]
    /\ alive = [n \in Nodes |-> TRUE]
    /\ last = [op |-> "start"]
    /\ applied = [k \in Keys |-> 0]
    /\ kinds = {}
    /\ steps = 0
    /\ tasks = IdleTasks
    /\ marks = <<>>
    /\ cfg = [validators |-> << <<Subject>> >>]
    /\ hist = <<>>
    /\ net = NewNet

\* The body of the case runs whenever the ticker has fired: LiveTick leaves
\* the position "fired", so it is enabled exactly there.
TickRuns == []<><<LiveTick>>_vars \/ []<>(tasks["tick"].pc # "fired")

\* The ticker of PoA.Run fires again and again, and the goroutine of PoA.Run
\* is scheduled.
SpecLive == InitLive /\ [][NextLive]_vars /\ WF_vars(TickerFire) /\ TickRuns

(***************************************************************************)
(* Catching up with a peer (network.Syncer).  Node 2 is the only validator *)
(* and builds a chain; node 1, started on the same genesis block, produces *)
(* nothing.  When the peer's hello reaches node 1 the two exchange         *)
(* get_blocks and blocks messages over the connection, which delivers them *)
(* in order and loses none; the peer stands still while they do.  net      *)
(* holds the messages in flight: outbox those to the peer, inbox those to  *)
(* node 1.  hist logs every get_blocks request of node 1 and every batch   *)
(* it handled; steps counts the hellos.                                    *)
(***************************************************************************)
MaxHellos == 2          \* hello messages in a behaviour
MaxSyncHeight == 3      \* highest block the peer produces
SyncLimit == 2          \* the batch size, 50 in the code

SyncPeer == 2
SyncValidators == << <<SyncPeer>> >>

\* handleBlocks asks for more after a batch longer than the limit only.
FullBatchStrict(blocks) == Len(blocks) > SyncLimit

\* handleBlocks: len(resp.Blocks) >= 50.
FullBatch(blocks) == Len(blocks) >= SyncLimit

\* RequestBlocks: the get_blocks message.
RequestBlocks(fromHeight) ==
    [type |-> "get_blocks", from_height |-> fromHeight, limit |-> SyncLimit]

\* The loop of handleGetBlocks: the blocks from height h up to, not
\* including, upto, ending at the first height the store does not hold.
RECURSIVE ServeFrom(_, _, _)
ServeFrom(bc, h, upto) ==
    IF h >= upto \/ GetBlockByHeight(bc, h) = ErrNotFound THEN <<>>
    ELSE <<GetBlockByHeight(bc, h)>> \o ServeFrom(bc, h + 1, upto)

\* handleGetBlocks: the blocks message it answers with.
handleGetBlocks(bc, req) ==
    LET limit == IF req.limit <= 0 \/ req.limit > 4 * SyncLimit THEN SyncLimit
                 ELSE req.limit
    IN  [type |-> "blocks", blocks |-> ServeFrom(bc, req.from_height, req.from_height + limit)]

\* A client's transaction reaches the peer's mempool.
SyncSubmit(tx) ==
    /\ tasks["peer1"].pc = "idle"
    /\ nodes[SyncPeer].bc.height < MaxSyncHeight
    /\ Cardinality(DOMAIN nodes[SyncPeer].mempool.txs) < MaxPool
    /\ \E res \in {MempoolAdd(nodes[SyncPeer].mempool, tx, 1)} :
           /\ res.ok
           /\ nodes' = [nodes EXCEPT ![SyncPeer].mempool = res.st]
    /\ last' = [op |-> "Add"]
    /\ UNCHANGED <<alive, applied, kinds, steps, tasks, marks, cfg, hist, net>>

\* The peer produces a block.
SyncProduce ==
    /\ tasks["peer1"].pc = "idle"
    /\ nodes[SyncPeer].bc.height < MaxSyncHeight
    /\ \E res \in {ProduceBlockWith(cfg.validators, nodes[SyncPeer], 1, <<0, 0>>,
                                    [store |-> TRUE, state |-> TRUE])} :
           /\ nodes' = [nodes EXCEPT ![SyncPeer] = res.node]
           /\ last' = [op |-> "sync.ProduceBlock", ok |-> res.ok]
    /\ UNCHANGED <<alive, applied, kinds, steps, tasks, marks, cfg, hist, net>>

\* Node 1 handles the peer's hello (handleHello); the task remembers the
\* height of the peer.
HandleHello ==
    /\ steps < MaxHellos
    /\ tasks["peer1"].pc = "idle"
    /\ steps' = steps + 1
    /\ tasks' = SetTask("peer1", [IdleTask EXCEPT !.pc = "sync",
                                                  !.i = nodes[SyncPeer].bc.height])
    /\ \E req \in {RequestBlocks(nodes[Subject].bc.height + 1)} :
           /\ net' = [net EXCEPT !.outbox = Append(@, req)]
           /\ hist' = Append(hist, [op |-> "request", cause |-> "hello",
                                    from_height |-> req.from_height,
                                    tip |-> nodes[Subject].bc.height])
    /\ last' = [op |-> "handleHello"]
    /\ UNCHANGED <<nodes, alive, applied, kinds, marks, cfg>>

\* The peer handles the oldest get_blocks message (handleGetBlocks).
ServeGetBlocks ==
    /\ net.outbox # <<>>
    /\ net' = [net EXCEPT !.outbox = Tail(@),
                          !.inbox = Append(@, handleGetBlocks(nodes[SyncPeer].bc,
                                                              Head(net.outbox)))]
    /\ last' = [op |-> "handleGetBlocks"]
    /\ UNCHANGED <<nodes, alive, applied, kinds, steps, tasks, marks, cfg, hist>>

\* Node 1 handles the oldest blocks message (handleBlocks) and, after a full
\* batch, asks for the next.
SyncHandleBlocks(seed) ==
    /\ net.inbox # <<>>
    /\ alive[Subject]
    /\ \E run \in {handleBlocksWith(cfg.validators, nodes[Subject], Head(net.inbox).blocks,
                                     1, seed, NoFault)} :
       \E more \in {FullBatch(Head(net.inbox).blocks)} :
       \E req \in {RequestBlocks(run.node.bc.height + 1)} :
           /\ nodes' = [nodes EXCEPT ![Subject] = run.node]
           /\ alive' = [alive EXCEPT ![Subject] = ~run.fatal]
           /\ net' = [net EXCEPT !.inbox = Tail(@),
                                 !.outbox = IF more /\ ~run.fatal THEN Append(@, req) ELSE @]
           /\ hist' = hist
                      \o <<[op |-> "batch", size |-> Len(Head(net.inbox).blocks),
                            tip |-> run.node.bc.height]>>
                      \o (IF more /\ ~run.fatal
                          THEN <<[op |-> "request", cause |-> "batch",
                                  from_height |-> req.from_height,
                                  tip |-> run.node.bc.height]>>
                          ELSE <<>>)
           /\ last' = [op |-> "sync.handleBlocks", size |-> Len(Head(net.inbox).blocks),
                       asked |-> more /\ ~run.fatal]
    /\ UNCHANGED <<applied, kinds, steps, tasks, marks, cfg>>

SyncRead == \E seed \in Seeds : SyncHandleBlocks(seed)

\* The peer goes away once nothing is in flight.
PeerLeaves ==
    /\ tasks["peer1"].pc = "sync"
    /\ net.inbox = <<>> /\ net.outbox = <<>>
    /\ tasks' = SetTask("peer1", IdleTask)
    /\ last' = [op |-> "leave"]
    /\ UNCHANGED <<nodes, alive, applied, kinds, steps, marks, cfg, hist, net>>

NextSync ==
    \/ \E tx \in {x0, sOpen} : SyncSubmit(tx)
    \/ SyncProduce
    \/ HandleHello
    \/ ServeGetBlocks
    \/ SyncRead
    \/ PeerLeaves

InitSync ==
    /\ nodes = [n \in Nodes |->
                  StartNode(<<n>>, CHOOSE alloc \in GenesisAllocs : alloc[<<2>>] < MaxU,
                            <<1>>)]
    /\ alive = [n \in Nodes |-> TRUE]
    /\ last = [op |-> "start"]
    /\ applied = [k \in Keys |-> 0]
    /\ kinds = {}
    /\ steps = 0
    /\ tasks = IdleTasks
    /\ marks = <<>>
    /\ cfg = [validators |-> SyncValidators]
    /\ hist = <<>>
    /\ net = NewNet

\* The read loop of node 1 handles a message that has arrived: SyncRead takes
\* the message off the inbox, so it is enabled exactly when there is one.
ReadLoopRuns == []<><<SyncRead>>_vars \/ []<>(net.inbox = <<>>)

\* Delivery is reliable and both read loops are scheduled.
SpecSync == InitSync /\ [][NextSync]_vars /\ WF_vars(ServeGetBlocks) /\ ReadLoopRuns

(***************************************************************************)
(* ExecuteBlock on blocks of several transactions.  The caller takes a     *)
(* snapshot, calls ExecuteBlock and then either reverts to the snapshot or *)
(* commits, as handleBlocks does.  steps counts the calls.                 *)
(***************************************************************************)
MaxBlockSteps == 3      \* calls in a behaviour
MaxBlockLen == 3        \* transactions in a block

x1 == TxSign(NewTransaction("transfer", <<1>>, 1, 0, 1, [to |-> <<2>>, amount |-> 1]), <<1>>)
BlockTxs == {x0, x1, x0Later, sOpen, sResult}
TxLists == UNION {[1 .. n -> BlockTxs] : n \in 0 .. MaxBlockLen}

BlockOf(txs) ==
    LET chainTip == nodes[1].bc.tip
    IN  NewBlock(ChainID, chainTip.header.height + 1, chainTip.hash,
                 ValidatorAt(chainTip.header.height + 1), txs, 1)

\* Snapshot, then ExecuteBlock on a block holding txs.
BlockExecute(txs, seed) ==
    /\ steps < MaxBlockSteps
    /\ last.op # "ExecuteBlock"
    /\ \E snap \in {Snapshot(nodes[1].state)} :
       \E res \in {ExecuteBlock(snap.st, BlockOf(txs), seed)} :
           /\ nodes' = [nodes EXCEPT ![1].state = res.st]
           /\ last' = [op |-> "ExecuteBlock", ok |-> res.ok, err |-> res.err,
                       block |-> BlockOf(txs), seed |-> seed, snapID |-> snap.id,
                       before |-> nodes[1].state, pre |-> snap.st]
    /\ steps' = steps + 1
    /\ UNCHANGED <<alive, applied, kinds, tasks, marks, cfg, hist, net>>

\* The caller's RevertToSnapshot after a failed ExecuteBlock.
BlockRevert ==
    /\ last.op = "ExecuteBlock" /\ ~last.ok
    /\ \E res \in {RevertToSnapshot(nodes[1].state, last.snapID)} :
           /\ nodes' = [nodes EXCEPT ![1].state = res.st]
           /\ last' = [op |-> "block.Revert", ok |-> res.ok, before |-> last.before]
    /\ UNCHANGED <<alive, applied, kinds, steps, tasks, marks, cfg, hist, net>>

\* The caller's Commit after a successful ExecuteBlock.
BlockCommit ==
    /\ last.op = "ExecuteBlock" /\ last.ok
    /\ \E res \in {Commit(nodes[1].state, TRUE)} :
           /\ nodes' = [nodes EXCEPT ![1].state = res.st]
           /\ last' = [op |-> "block.Commit", ok |-> res.ok]
    /\ UNCHANGED <<alive, applied, kinds, steps, tasks, marks, cfg, hist, net>>

NextBlockExec ==
    \/ \E txs \in TxLists, seed \in Seeds : BlockExecute(txs, seed)
    \/ BlockRevert
    \/ BlockCommit

SpecBlock == InitStore /\ [][NextBlockExec]_vars

(***************************************************************************)
(* The state store next to a plain map.  Every call on node 1's StateDB is *)
(* made on a map from keys to values as well, kept in hist with the maps   *)
(* saved at the snapshots: a set writes the key, a delete removes it, a    *)
(* snapshot saves the map, a revert brings the saved map back, a commit    *)
(* leaves the map as it is.  steps counts the calls.                       *)
(***************************************************************************)
MaxRefineSteps == 5     \* calls on the state store in a behaviour

WriteKey(w) ==
    CASE w.op = "SetAccount" -> AccountKey(w.val.address)
      [] w.op = "SetAsset" -> AssetKey(w.val.id)
      [] w.op = "SetTemplate" -> TemplateKey(w.val.id)
      [] w.op = "SetSession" -> SessionKey(w.val.id)
      [] w.op = "SetListing" -> ListingKey(w.val.id)
      [] w.op = "DeleteAsset" -> AssetKey(w.val.id)

\* The write on the plain map.
PlainWrite(map, w) ==
    IF w.op = "DeleteAsset"
    THEN [k \in DOMAIN map \ {WriteKey(w)} |-> map[k]]
    ELSE [k \in DOMAIN map \cup {WriteKey(w)} |-> IF k = WriteKey(w) THEN w.val ELSE map[k]]

RefineWrite(w) ==
    /\ steps < MaxRefineSteps
    /\ nodes' = [nodes EXCEPT ![1].state = ApplyWrite(@, w)]
    /\ hist' = [hist EXCEPT !.map = PlainWrite(@, w)]
    /\ last' = [op |-> "refine.write", key |-> WriteKey(w), write |-> w]
    /\ steps' = steps + 1
    /\ UNCHANGED <<alive, applied, kinds, tasks, marks, cfg, net>>

RefineSnapshot ==
    /\ steps < MaxRefineSteps
    /\ nodes' = [nodes EXCEPT ![1].state = Snapshot(@).st]
    /\ hist' = [hist EXCEPT !.saved = Append(@, hist.map)]
    /\ last' = [op |-> "refine.Snapshot"]
    /\ steps' = steps + 1
    /\ UNCHANGED <<alive, applied, kinds, tasks, marks, cfg, net>>

RefineRevert(id) ==
    /\ steps < MaxRefineSteps
    /\ \E res \in {RevertToSnapshot(nodes[1].state, id)} :
           /\ nodes' = [nodes EXCEPT ![1].state = res.st]
           /\ hist' = IF res.ok
                      THEN [map |-> hist.saved[id + 1], saved |-> SubSeq(hist.saved, 1, id)]
                      ELSE hist
           /\ last' = [op |-> "refine.RevertToSnapshot", ok |-> res.ok, id |-> id]
    /\ steps' = steps + 1
    /\ UNCHANGED <<alive, applied, kinds, tasks, marks, cfg, net>>

RefineCommit(ioOk) ==
    /\ steps < MaxRefineSteps
    /\ \E res \in {Commit(nodes[1].state, ioOk)} :
           /\ nodes' = [nodes EXCEPT ![1].state = res.st]
           /\ hist' = IF res.ok THEN [hist EXCEPT !.saved = <<>>] ELSE hist
           /\ last' = [op |-> "refine.Commit", ok |-> res.ok]
    /\ steps' = steps + 1
    /\ UNCHANGED <<alive, applied, kinds, tasks, marks, cfg, net>>

NextRefine ==
    \/ \E w \in Writes : RefineWrite(w)
    \/ RefineSnapshot
    \/ \E id \in 0 .. Len(nodes[1].state.snapshots) : RefineRevert(id)
    \/ \E ioOk \in BOOLEAN : RefineCommit(ioOk)

InitRefine ==
    /\ nodes = [n \in Nodes |->
                  StartNode(<<n>>, CHOOSE alloc \in GenesisAllocs : alloc[<<2>>] < MaxU,
                            <<1>>)]
    /\ alive = [n \in Nodes |-> TRUE]
    /\ last = [op |-> "start"]
    /\ applied = [k \in Keys |-> 0]
    /\ kinds = {}
    /\ steps = 0
    /\ tasks = IdleTasks
    /\ marks = <<>>
    /\ cfg = [validators |-> Validators]
    /\ hist = [map |-> nodes[1].state.db, saved |-> <<>>]
    /\ net = NewNet

SpecRefine == InitRefine /\ [][NextRefine]_vars

(***************************************************************************)
(* The chain of one node under every way a block reaches it: its own       *)
(* ProduceBlock, batches handled by handleBlocks, and AddBlock called with *)
(* any block.  The blocks offered link to the tip, to the block below the  *)
(* tip (a competing tip), to the genesis sentinel or to a block the chain  *)
(* does not hold.  steps counts the calls.                                 *)
(***************************************************************************)
MaxExtSteps == 3        \* calls in a behaviour
MaxExtHeight == 3       \* largest height of an offered block

\* The hash of the block below the tip, if the store holds one.
BelowTip(bc) ==
    IF bc.tip # NoBlock /\ (bc.tip.header.height - 1) \in DOMAIN bc.store.heights
    THEN {bc.store.heights[bc.tip.header.height - 1]}
    ELSE {}

\* Signed, empty blocks by the scheduled proposer of their height.
ExtBlocks(bc) ==
    { BlockSign(NewBlock(ChainID, h, prev, ValidatorAt(h), <<>>, now), ValidatorAt(h)) :
        h \in 0 .. MaxExtHeight,
        prev \in PrevHashes(bc) \cup BelowTip(bc),
        now \in Times }

\* The block that follows b.
ExtFollower(b) ==
    BlockSign(NewBlock(ChainID, b.header.height + 1, b.hash,
                       ValidatorAt(b.header.height + 1), <<>>, b.header.timestamp),
              ValidatorAt(b.header.height + 1))

ExtBatches(bc) == UNION {{<<b>>, <<b, ExtFollower(b)>>} : b \in ExtBlocks(bc)}

ExtProduce(io) ==
    /\ steps < MaxExtSteps
    /\ alive[1]
    /\ \E res \in {ProduceBlockWith(cfg.validators, nodes[1], 1, <<0, 0>>, io)} :
           /\ nodes' = [nodes EXCEPT ![1] = res.node]
           /\ alive' = [alive EXCEPT ![1] = ~res.fatal]
           /\ last' = [op |-> "ext.ProduceBlock", ok |-> res.ok, pre |-> nodes[1].bc]
    /\ steps' = steps + 1
    /\ UNCHANGED <<applied, kinds, tasks, marks, cfg, hist, net>>

ExtDeliver(batch, fault) ==
    /\ steps < MaxExtSteps
    /\ alive[1]
    /\ \E run \in {handleBlocksWith(cfg.validators, nodes[1], batch, MaxTime, <<0, 0>>,
                                    fault)} :
           /\ nodes' = [nodes EXCEPT ![1] = run.node]
           /\ alive' = [alive EXCEPT ![1] = ~run.fatal]
           /\ last' = [op |-> "ext.handleBlocks", batch |-> batch, pre |-> nodes[1].bc]
    /\ steps' = steps + 1
    /\ UNCHANGED <<applied, kinds, tasks, marks, cfg, hist, net>>

ExtAddBlock(block, ioOk) ==
    /\ steps < MaxExtSteps
    /\ alive[1]
    /\ \E res \in {AddBlock(nodes[1].bc, block, ioOk)} :
           /\ nodes' = [nodes EXCEPT ![1].bc = res.st]
           /\ last' = [op |-> "ext.AddBlock", ok |-> res.ok, block |-> block,
                       pre |-> nodes[1].bc]
    /\ steps' = steps + 1
    /\ UNCHANGED <<alive, applied, kinds, tasks, marks, cfg, hist, net>>

NextExt ==
    \/ \E io \in IoOutcomes : ExtProduce(io)
    \/ \E batch \in ExtBatches(nodes[1].bc) : \E fault \in Faults(batch) :
           ExtDeliver(batch, fault)
    \/ \E block \in ExtBlocks(nodes[1].bc), ioOk \in BOOLEAN : ExtAddBlock(block, ioOk)

SpecExt == InitStore /\ [][NextExt]_vars

(***************************************************************************)
(* The two ways a transaction reaches node 1's mempool: the RPC method     *)
(* sendTx, which recomputes the id before Mempool.Add, and the tx message  *)
(* of a peer, whose handler passes the decoded transaction to Mempool.Add  *)
(* as it is.  The transactions that arrive are signed transfers and        *)
(* copies of them whose id field names another value; the validator's tick *)
(* takes the pending ones into a block.  steps counts the calls.           *)
(***************************************************************************)
MaxGossipSteps == 4     \* sendTx calls, tx messages and ticks in a behaviour

\* The transaction tx as a sender encodes it with another id.
Relabel(tx) == [tx EXCEPT !.id = TxHash(tx) \o <<0>>]

GossipTxs == {x0, x1, Relabel(x0), Relabel(x1), xForged}

\* Handler.sendTx: tx.ID = tx.Hash(), then Mempool.Add.
RpcSendTx(tx, now) ==
    /\ steps < MaxGossipSteps
    /\ alive[1]
    /\ \E res \in {MempoolAdd(nodes[1].mempool, [tx EXCEPT !.id = TxHash(tx)], now)} :
           /\ nodes' = [nodes EXCEPT ![1].mempool = res.st]
           /\ last' = [op |-> "sendTx", tx |-> tx, ok |-> res.ok, pre |-> nodes[1].mempool]
    /\ steps' = steps + 1
    /\ UNCHANGED <<alive, applied, kinds, tasks, marks, cfg, hist, net>>

\* Node.handleTx: Mempool.Add of the transaction the message carries.
GossipHandleTx(tx, now) ==
    /\ steps < MaxGossipSteps
    /\ alive[1]
    /\ \E res \in {MempoolAdd(nodes[1].mempool, tx, now)} :
           /\ nodes' = [nodes EXCEPT ![1].mempool = res.st]
           /\ last' = [op |-> "handleTx", tx |-> tx, ok |-> res.ok, pre |-> nodes[1].mempool]
    /\ steps' = steps + 1
    /\ UNCHANGED <<alive, applied, kinds, tasks, marks, cfg, hist, net>>

\* A tick of the validator loop of node 1, the only validator.
GossipProduce ==
    /\ steps < MaxGossipSteps
    /\ alive[1]
    /\ \E res \in {ProduceBlockWith(<<nodes[1].key>>, nodes[1], 1, <<0, 0>>,
                                    [store |-> TRUE, state |-> TRUE])} :
           /\ nodes' = [nodes EXCEPT ![1] = res.node]
           /\ alive' = [alive EXCEPT ![1] = ~res.fatal]
           /\ last' = [op |-> "gossip.ProduceBlock", ok |-> res.ok, err |-> res.err,
                       block |-> res.block, pre |-> nodes[1].mempool]
    /\ steps' = steps + 1
    /\ UNCHANGED <<applied, kinds, tasks, marks, cfg, hist, net>>

NextGossip ==
    \/ \E tx \in GossipTxs : RpcSendTx(tx, 1)
    \/ \E tx \in GossipTxs : GossipHandleTx(tx, 1)
    \/ GossipProduce

SpecGossip == InitStore /\ [][NextGossip]_vars

(***************************************************************************)
(* ProduceBlock of node 1 step by step, with the read loops of the peers   *)
(* and the RPC server adding transactions to the mempool between the       *)
(* steps: Pending, ExecuteBlock, ComputeRoot and Sign, AddBlock, Commit,   *)
(* Remove.  The store write of AddBlock and the batch write of Commit may  *)
(* fail.  hist keeps the pool as Pending found it, the ids added since in  *)
(* the order Add accepted them, those added before Remove and those added  *)
(* later, and whether Remove has run; steps counts the Add calls and the   *)
(* ticks.                                                                  *)
(***************************************************************************)
MaxProduceSteps == 5    \* Add calls and ticks in a behaviour

ProduceTxs == {x0, x1, x0Later, sOpen}

ProduceAddTx(tx, now) ==
    /\ steps < MaxProduceSteps
    /\ alive[1]
    /\ \E res \in {MempoolAdd(nodes[1].mempool, tx, now)} :
           /\ nodes' = [nodes EXCEPT ![1].mempool = res.st]
           /\ hist' = IF ~res.ok THEN hist
                      ELSE IF hist.done THEN [hist EXCEPT !.later = Append(@, tx.id)]
                      ELSE [hist EXCEPT !.added = Append(@, tx.id)]
           /\ last' = [op |-> "produce.Add", ok |-> res.ok, tx |-> tx]
    /\ steps' = steps + 1
    /\ UNCHANGED <<alive, applied, kinds, tasks, marks, cfg, net>>

\* ProduceBlock up to core.NewBlock: the proposer test and mempool.Pending.
ProducePending(now) ==
    /\ steps < MaxProduceSteps
    /\ alive[1]
    /\ tasks["tick"].pc = "idle"
    /\ IsProposerWith(cfg.validators, nodes[1])
    /\ LET node == nodes[1]
           limit == IF MaxBlockTxs <= 0 THEN 500 ELSE MaxBlockTxs
           txs == Pending(node.mempool, limit)
           chainTip == node.bc.tip
           prevHash == IF chainTip = NoBlock THEN GenesisHash ELSE chainTip.hash
           nextHeight == IF chainTip = NoBlock THEN 1 ELSE chainTip.header.height + 1
       IN  tasks' = SetTask("tick", [IdleTask EXCEPT
                        !.pc = "execute",
                        !.block = NewBlock(ChainID, nextHeight, prevHash, node.key, txs, now)])
    /\ hist' = [pre |-> nodes[1].mempool, added |-> <<>>, done |-> FALSE, later |-> <<>>]
    /\ steps' = steps + 1
    /\ last' = [op |-> "produce.Pending", ok |-> TRUE]
    /\ UNCHANGED <<nodes, alive, applied, kinds, marks, cfg, net>>

\* p.exec.ExecuteBlock(block); an error ends ProduceBlock.
ProduceExecute(seed) ==
    /\ alive[1]
    /\ tasks["tick"].pc = "execute"
    /\ \E res \in {ExecuteBlock(nodes[1].state, tasks["tick"].block, seed)} :
           /\ nodes' = [nodes EXCEPT ![1].state = res.st]
           /\ tasks' = SetTask("tick", IF res.ok THEN [tasks["tick"] EXCEPT !.pc = "root"]
                                       ELSE IdleTask)
           /\ last' = [op |-> "produce.Execute", ok |-> res.ok]
    /\ UNCHANGED <<alive, applied, kinds, steps, marks, cfg, hist, net>>

\* block.Header.StateRoot = p.state.ComputeRoot(); block.Sign(p.privKey).
ProduceRoot(seed) ==
    /\ alive[1]
    /\ tasks["tick"].pc = "root"
    /\ \E root \in {ComputeRoot(nodes[1].state, seed)} :
           tasks' = SetTask("tick", [tasks["tick"] EXCEPT
                        !.pc = "add",
                        !.block = BlockSign([@ EXCEPT !.header.state_root = root],
                                            nodes[1].key)])
    /\ last' = [op |-> "produce.Root", ok |-> TRUE]
    /\ UNCHANGED <<nodes, alive, applied, kinds, steps, marks, cfg, hist, net>>

\* p.bc.AddBlock(block); an error ends ProduceBlock.
ProduceAdd(ioOk) ==
    /\ alive[1]
    /\ tasks["tick"].pc = "add"
    /\ \E added \in {AddBlock(nodes[1].bc, tasks["tick"].block, ioOk)} :
           /\ nodes' = [nodes EXCEPT ![1].bc = added.st]
           /\ tasks' = SetTask("tick", IF added.ok THEN [tasks["tick"] EXCEPT !.pc = "commit"]
                                       ELSE IdleTask)
           /\ last' = [op |-> "produce.AddBlock", ok |-> added.ok]
    /\ UNCHANGED <<alive, applied, kinds, steps, marks, cfg, hist, net>>

\* p.state.Commit(); an error ends the process (log.Fatalf).
ProduceCommit(ioOk) ==
    /\ alive[1]
    /\ tasks["tick"].pc = "commit"
    /\ \E res \in {Commit(nodes[1].state, ioOk)} :
           /\ nodes' = [nodes EXCEPT ![1].state = res.st]
           /\ alive' = [alive EXCEPT ![1] = res.ok]
           /\ tasks' = SetTask("tick", IF res.ok THEN [tasks["tick"] EXCEPT !.pc = "remove"]
                                       ELSE [tasks["tick"] EXCEPT !.pc = "fatal"])
           /\ last' = [op |-> "produce.Commit", ok |-> res.ok]
    /\ UNCHANGED <<applied, kinds, steps, marks, cfg, hist, net>>

\* The block_commit event, then p.mempool.Remove(txIDs) with the ids of txs.
ProduceRemove ==
    /\ alive[1]
    /\ tasks["tick"].pc = "remove"
    /\ LET txs == tasks["tick"].block.transactions
       IN  nodes' = [nodes EXCEPT
               ![1].mempool = MempoolRemove(@, {txs[i].id : i \in DOMAIN txs})]
    /\ hist' = [hist EXCEPT !.done = TRUE]
    /\ tasks' = SetTask("tick", IdleTask)
    /\ last' = [op |-> "produce.Remove", ok |-> TRUE, block |-> tasks["tick"].block]
    /\ UNCHANGED <<alive, applied, kinds, steps, marks, cfg, net>>

NextProduce ==
    \/ \E tx \in ProduceTxs : ProduceAddTx(tx, 1)
    \/ ProducePending(1)
    \/ ProduceExecute(<<0, 0>>)
    \/ ProduceRoot(0)
    \/ \E ioOk \in BOOLEAN : ProduceAdd(ioOk)
    \/ \E ioOk \in BOOLEAN : ProduceCommit(ioOk)
    \/ ProduceRemove

InitProduce ==
    /\ nodes = [n \in Nodes |->
                  StartNode(<<n>>, CHOOSE alloc \in GenesisAllocs : alloc[<<2>>] < MaxU,
                            <<1>>)]
    /\ alive = [n \in Nodes |-> TRUE]
    /\ last = [op |-> "start"]
    /\ applied = [k \in Keys |-> 0]
    /\ kinds = {}
    /\ steps = 0
    /\ tasks = IdleTasks
    /\ marks = <<>>
    /\ cfg = [validators |-> << <<1>> >>]
    /\ hist = [pre |-> nodes[1].mempool, added |-> <<>>, done |-> FALSE, later |-> <<>>]
    /\ net = NewNet

SpecProduce == InitProduce /\ [][NextProduce]_vars

(***************************************************************************)
(* The asset market with the transactions a peer or a proposer can hand    *)
(* to the executor: those of SpecMarket, and mint transactions whose id    *)
(* field carries the id of the transaction that minted an asset of the     *)
(* state (ids are public in the blocks; Verify makes no test of the id).   *)
(***************************************************************************)
\* The ids of the transactions that minted the assets of s from template <<1>>.
MintTxIDs(s) == {SubSeq(a, 1, Len(a) - 2) : a \in IDsUnder(s, prefixAsset)}

NextAssets ==
    \/ \E typ \in MarketTypes :
         \E from \in {<<1>>, <<2>>}, payload \in MarketPayloads(typ, nodes[1].state) :
         \E tx \in {TxSign(NewTransaction(typ, from,
                               GetAccount(nodes[1].state, from).nonce, 0, 1, payload),
                           from)} :
             MarketTx(tx)
    \/ \E from \in {<<1>>, <<2>>}, id \in MintTxIDs(nodes[1].state) :
         \E tx \in {[TxSign(NewTransaction("mint_asset", from,
                                GetAccount(nodes[1].state, from).nonce, 0, 1,
                                [template_id |-> <<1>>, owner |-> EmptyStr]),
                            from) EXCEPT !.id = id]} :
             MarketTx(tx)
    \/ MarketCommit

SpecAssets == InitMarket /\ [][NextAssets]_vars

(***************************************************************************)
(* Staked sessions: session_open and session_result transactions from any  *)
(* key executed on node 1's state, with commits in between.  hist lists,   *)
(* for each session opened, its id and the sender of the session_open;     *)
(* steps counts the ExecuteTx calls.                                       *)
(***************************************************************************)
MaxSessionSteps == 3    \* ExecuteTx calls in a behaviour

SettleOpenPayloads ==
    {[session_id |-> id, players |-> << <<1>>, <<2>> >>, stakes |-> stakes] :
        id \in {<<1>>, <<2>>}, stakes \in {0, 1}}

SettleResultPayloads ==
    {[session_id |-> id, outcome |-> o] :
        id \in {<<1>>, <<2>>}, o \in {EmptyMap, (<<1>> :> 2), (<<3>> :> 2),
                                      (<<1>> :> 1 @@ <<2>> :> 1)}}

SessionTx(tx, seed) ==
    /\ steps < MaxSessionSteps
    /\ \E res \in {ExecuteTx(nodes[1].state, BlockUnderExecution(tx), tx, seed)} :
        /\ nodes' = [nodes EXCEPT ![1].state = res.st]
        /\ hist' = IF res.ok /\ tx.type = "session_open"
                   THEN Append(hist, [id |-> tx.payload.session_id, opener |-> tx.from])
                   ELSE hist
        /\ last' = [op |-> "ExecuteTx", ok |-> res.ok, err |-> res.err, tx |-> tx,
                    pre |-> nodes[1].state, replay |-> FALSE]
    /\ steps' = steps + 1
    /\ UNCHANGED <<alive, applied, kinds, tasks, marks, cfg, net>>

SessionCommit ==
    /\ nodes[1].state.dirty # EmptyMap
    /\ nodes' = [nodes EXCEPT ![1].state = Commit(@, TRUE).st]
    /\ last' = [op |-> "Commit", ok |-> TRUE, pre |-> nodes[1].state]
    /\ UNCHANGED <<alive, applied, kinds, steps, tasks, marks, cfg, hist, net>>

NextSession ==
    \/ \E from \in Keys, payload \in SettleOpenPayloads :
         SessionTx(TxSign(NewTransaction("session_open", from,
                              GetAccount(nodes[1].state, from).nonce, 0, 1, payload),
                          from), <<0, 0>>)
    \/ \E from \in Keys, payload \in SettleResultPayloads :
         SessionTx(TxSign(NewTransaction("session_result", from,
                              GetAccount(nodes[1].state, from).nonce, 0, 1, payload),
                          from), <<0, 0>>)
    \/ SessionCommit

SpecSession == InitStore /\ [][NextSession]_vars

RECURSIVE SumOver(_, _)
SumOver(f, S) ==
    IF S = {} THEN 0
    ELSE LET x == CHOOSE y \in S : TRUE IN f[x] + SumOver(f, S \ {x})

\* The sum of the balances of all accounts readable from the store s.
TotalBalance(s) ==
    LET merged == Merged(s)
        accounts == {k \in DOMAIN merged : Head(k) = prefixAccount}
    IN  SumOver([k \in accounts |-> merged[k].balance], accounts)

SumRewards(outcome) == SumOver(outcome, DOMAIN outcome)

FailedExecuteTx == last.op = "ExecuteTx" /\ ~last.ok
AppliedExecuteTx == last.op = "ExecuteTx" /\ last.ok

(***************************************************************************)
(* C3.  When ExecuteTx returns an error, the state store is what it was    *)
(* before the call: every entity read from it (the sender's nonce and      *)
(* balance and the proposer's balance among them) has its former value,    *)
(* and so have the write buffer, the tombstones and the snapshot stack.    *)
(* Executing again the transaction that was just applied returns the       *)
(* nonce error.  Checked under SpecExec.                                   *)
(***************************************************************************)
C3_FailedTxChangesNothing ==
    /\ FailedExecuteTx =>
          /\ Merged(nodes[1].state) = Merged(last.pre)
          /\ \A k \in Keys : GetAccount(nodes[1].state, k) = GetAccount(last.pre, k)
          /\ nodes[1].state = last.pre
    /\ (last.op = "ExecuteTx" /\ last.replay) => (~last.ok /\ last.err = "invalid nonce")

\* A handler rejected a transaction after its fee had been taken from the
\* sender and credited to the proposer, over a store with buffered writes.
C3_Witness ==
    /\ FailedExecuteTx
    /\ last.tx.fee > 0
    /\ last.tx.from # ValidatorAt(nodes[1].bc.height + 1)
    /\ last.err \notin {"signature", "invalid nonce", "insufficient balance for fee",
                        "nonce overflow", "proposer balance overflow"}
    /\ last.pre.dirty # EmptyMap

(***************************************************************************)
(* C4.  After any sequence of ExecuteTx calls, and after commit, the nonce *)
(* of every account equals the number of transactions of that sender that  *)
(* were applied; no call decreases a nonce and a failed call leaves every  *)
(* nonce as it was.  Checked under SpecExec.                               *)
(***************************************************************************)
C4_NonceCountsApplied ==
    /\ \A k \in Keys : GetAccount(nodes[1].state, k).nonce = applied[k]
    /\ last.op \in {"ExecuteTx", "Commit"} =>
          \A k \in Keys :
              /\ GetAccount(nodes[1].state, k).nonce >= GetAccount(last.pre, k).nonce
              /\ (~last.ok \/ last.op = "Commit") =>
                    GetAccount(nodes[1].state, k).nonce = GetAccount(last.pre, k).nonce

\* A commit after two senders' transactions, one of them paying no fee.
C4_Witness ==
    /\ last.op = "Commit" /\ last.ok
    /\ applied[<<1>>] >= 2
    /\ applied[<<2>>] >= 1
    /\ nodes[1].state.dirty = EmptyMap

(***************************************************************************)
(* C5.  Every applied transaction of a kind other than session_open and    *)
(* session_result, whatever its fee, leaves the sum of all balances        *)
(* unchanged.  Checked under SpecExec.                                     *)
(***************************************************************************)
C5_TokenConservation ==
    (AppliedExecuteTx /\ last.tx.type \notin {"session_open", "session_result"}) =>
        TotalBalance(nodes[1].state) = TotalBalance(last.pre)

(***************************************************************************)
(* C6.  session_result on an open session is applied only if the rewards   *)
(* sum to at most stakes * len(players), and then the balances grow by     *)
(* exactly that sum; when it is rejected no balance changes.  Checked      *)
(* under SpecExec.                                                         *)
(***************************************************************************)
C6_SessionConservation ==
    (last.op = "ExecuteTx" /\ last.tx.type = "session_result") =>
        LET sess == GetSession(last.pre, last.tx.payload.session_id)
            rewards == SumRewards(last.tx.payload.outcome)
        IN  (sess # ErrNotFound /\ sess.status = "open") =>
                IF last.ok
                THEN /\ rewards <= sess.stakes * Len(sess.players)
                     /\ TotalBalance(nodes[1].state) = TotalBalance(last.pre) + rewards
                ELSE \A k \in Keys : GetAccount(nodes[1].state, k).balance
                                        = GetAccount(last.pre, k).balance

Produced == last.op = "ProduceBlock"
Delivered == last.op = "handleBlocks"
RootSeeds == 0 .. MaxSeed - 1

\* Nodes n and m hold the same blocks above their genesis blocks.
SameChain(n, m) ==
    /\ nodes[n].bc.height = nodes[m].bc.height
    /\ \A h \in 1 .. nodes[n].bc.height :
           GetBlockByHeight(nodes[n].bc, h) = GetBlockByHeight(nodes[m].bc, h)

(***************************************************************************)
(* C1.  Two running replicas that started from the same genesis alloc and  *)
(* hold the same sequence of blocks, produced on one and synced on the     *)
(* other, compute the same state root at that height, whatever the map     *)
(* iteration orders met.  Checked under Spec.                              *)
(***************************************************************************)
C1_StateRootDeterminism ==
    \A n, m \in Nodes :
        (alive[n] /\ alive[m] /\ SameChain(n, m)) =>
            \A s1, s2 \in RootSeeds :
                ComputeRoot(nodes[n].state, s1) = ComputeRoot(nodes[m].state, s2)

\* The block at position i of the delivered batch was altered on the way,
\* failed validation, or carried a state root other than the computed one.
BadEntry(e) ==
    \/ ~last.genuine[e.index]
    \/ e.outcome \in {"invalid", "root_mismatch"}

(***************************************************************************)
(* C2.  A received block that was altered (header, hash, signature or      *)
(* transaction list), that fails validation, or whose non-empty state root *)
(* differs from the computed root never moves the tip of the syncing node; *)
(* and after such a block the height of the node stays where it was before *)
(* that block for the rest of the batch.  Checked under Spec.              *)
(***************************************************************************)
C2_TipNeverAdvancesToBadBlock ==
    Delivered =>
        \A i \in DOMAIN last.log :
            LET e == last.log[i]
            IN  BadEntry(e) =>
                    /\ e.postTip = e.preTip
                    /\ nodes[last.node].bc.height = e.preTip.header.height

\* In a trace of store calls, every state commit directly follows an
\* accepted AddBlock of the same block.
TraceOrdered(trace) ==
    \A i \in DOMAIN trace :
        trace[i].call = "Commit" =>
            /\ i > 1
            /\ trace[i - 1].call = "AddBlock"
            /\ trace[i - 1].ok
            /\ trace[i - 1].hash = trace[i].hash

(***************************************************************************)
(* C7.  ProduceBlock and handleBlocks call the state store's Commit for a  *)
(* block only directly after AddBlock accepted that block; when AddBlock   *)
(* fails, the persisted entries of the state store are those from before   *)
(* the block, and the persisted state of a running node is always the      *)
(* state its tip block names.  Checked under Spec.                         *)
(***************************************************************************)
C7_CommitOnlyAfterAddBlock ==
    /\ (Produced \/ Delivered) => TraceOrdered(last.trace)
    /\ (Produced /\ last.err = "add block") =>
           nodes[last.node].state.db = last.pre.state.db
    /\ Delivered =>
           \A i \in DOMAIN last.log :
               last.log[i].outcome = "add_failed" =>
                   last.log[i].post.db = last.log[i].pre.db
    /\ \A n \in Nodes :
           alive[n] =>
               ComputeRoot(NewStateDB(nodes[n].state.db), 0)
                   = nodes[n].bc.tip.header.state_root

\* The chain store refused a block with transactions, and the next block of
\* the batch was then added and committed.
C7_Witness ==
    /\ Delivered
    /\ Len(last.log) = 2
    /\ last.log[1].outcome = "add_failed"
    /\ last.log[1].block.transactions # <<>>
    /\ last.log[2].outcome = "applied"
    /\ Len(last.trace) = 3

(***************************************************************************)
(* C8.  When ProduceBlock returns an error, because a transaction failed   *)
(* or because the chain store refused the block, the state store is what   *)
(* it was before the call (write buffer, tombstones, persisted entries)    *)
(* and so is its root.  Checked under Spec.                                *)
(***************************************************************************)
C8_FailedProduceLeavesState ==
    (Produced /\ ~last.ok /\ ~last.fatal) =>
        /\ nodes[last.node].state.dirty = last.pre.state.dirty
        /\ nodes[last.node].state.deleted = last.pre.state.deleted
        /\ nodes[last.node].state.db = last.pre.state.db
        /\ ComputeRoot(nodes[last.node].state, 0) = ComputeRoot(last.pre.state, 0)

(***************************************************************************)
(* C9.  When the syncer gives up a received block because its execution    *)
(* failed, its state root did not match or the chain store refused it, the *)
(* state store reads as before that block (root and every entry) and the   *)
(* tip is the one from before that block.  Checked under Spec.             *)
(***************************************************************************)
C9_SyncerReverts ==
    Delivered =>
        \A i \in DOMAIN last.log :
            LET e == last.log[i]
            IN  e.outcome \in {"exec_failed", "root_mismatch", "add_failed"} =>
                    /\ Merged(e.post) = Merged(e.pre)
                    /\ \A seed \in RootSeeds :
                           ComputeRoot(e.post, seed) = ComputeRoot(e.pre, seed)
                    /\ \A k \in Keys : GetAccount(e.post, k) = GetAccount(e.pre, k)
                    /\ e.post.dirty = e.pre.dirty
                    /\ e.post.deleted = e.pre.deleted
                    /\ e.post.db = e.pre.db
                    /\ e.postTip = e.preTip

\* A delivered block executed in full and was given up at the root check.
C9_Witness ==
    /\ Delivered
    /\ \E i \in DOMAIN last.log :
           /\ last.log[i].outcome = "root_mismatch"
           /\ last.log[i].block.transactions # <<>>

(***************************************************************************)
(* C10.  Once a block of a received batch fails validation, execution, the *)
(* root check or the chain store's commit, handleBlocks goes on to no      *)
(* later block of that batch.  Checked under Spec.                         *)
(***************************************************************************)
C10_StopTheBatch ==
    Delivered =>
        \A i, j \in DOMAIN last.log :
            i < j => last.log[i].outcome = "applied"

\* Task t is between its first and its last call on the state store for
\* one block: a read loop holds a snapshot it has not yet committed or
\* reverted; the ticker has a block it has not yet committed or given up.
InSection(t) ==
    IF t = "tick" THEN tasks[t].pc \in {"execute", "root", "add", "commit"}
    ELSE tasks[t].pc \in {"execute", "root", "add", "commit", "revert"}

(***************************************************************************)
(* C11.  At most one goroutine of a node is between the first and the last *)
(* state-store call of a block (snapshot, execute, compute root, commit or *)
(* revert), and the snapshot id a read loop is about to revert to is still *)
(* on the snapshot stack.  Checked under SpecTasks.                        *)
(***************************************************************************)
C11_SingleWriter ==
    /\ Cardinality({t \in TaskIds : InSection(t)}) <= 1
    /\ \A p \in Peers :
           tasks[p].pc = "revert" =>
               tasks[p].snapID < Len(nodes[Subject].state.snapshots)

(***************************************************************************)
(* C12.  A getBalance request answered while blocks are produced or        *)
(* applied returns the account as the KV store holds it: no value of the   *)
(* write buffer, which is not yet committed and may be reverted.  Checked  *)
(* under SpecTasks.                                                        *)
(***************************************************************************)
C12_ReadsSeeCommitted ==
    last.op = "getBalance" => last.result = last.committed

(***************************************************************************)
(* C13.  For every snapshot on the stack, reverting to its id yields a     *)
(* store whose root (under every iteration order) and whose entity reads   *)
(* are those at the moment the snapshot was taken, whatever typed sets,    *)
(* deletes, nested snapshots and reverts to later ids came after it; and a *)
(* revert that was made left the store reading so.  Checked under          *)
(* SpecStore.                                                              *)
(***************************************************************************)
C13_SnapshotRevertLaw ==
    /\ Len(marks) = Len(nodes[1].state.snapshots)
    /\ \A i \in 1 .. Len(marks) :
           LET res == RevertToSnapshot(nodes[1].state, i - 1)
           IN  res.ok /\ Mark(res.st) = marks[i]
    /\ (last.op = "RevertToSnapshot" /\ last.ok) => Mark(nodes[1].state) = last.mark

\* A revert to the outer of two nested snapshots, after writes that changed
\* what the store reads as.
C13_Witness ==
    /\ last.op = "RevertToSnapshot"
    /\ last.ok
    /\ last.id = 0
    /\ Len(last.pre.snapshots) >= 2
    /\ ReadAll(last.pre) # last.mark.reads
    /\ last.pre.deleted # {}

(***************************************************************************)
(* C14.  A successful commit leaves the buffer, the tombstones and the     *)
(* snapshot stack empty and the KV store holding every buffered write and  *)
(* none of the deleted keys, other keys as before; a failed commit leaves  *)
(* the store as it was, KV store included; a commit with an empty buffer   *)
(* and no tombstones succeeds and leaves the KV store as it was.  Checked  *)
(* under SpecStore.                                                        *)
(***************************************************************************)
C14_CommitAtomic ==
    last.op = "StoreCommit" =>
        LET pre == last.pre
            post == nodes[1].state
            touched == DOMAIN pre.dirty \cup pre.deleted
        IN  /\ last.ok =>
                /\ DOMAIN post.dirty = {}
                /\ post.deleted = {}
                /\ post.snapshots = <<>>
                /\ \A k \in DOMAIN pre.dirty : k \in DOMAIN post.db /\ post.db[k] = pre.dirty[k]
                /\ \A k \in pre.deleted : k \notin DOMAIN post.db
                /\ DOMAIN post.db \ touched = DOMAIN pre.db \ touched
                /\ \A k \in DOMAIN pre.db \ touched : post.db[k] = pre.db[k]
            /\ ~last.ok => post = pre
            /\ touched = {} => last.ok /\ post.db = pre.db

\* A commit flushed a write and a tombstone of a persisted key with a
\* snapshot on the stack.
C14_Witness ==
    /\ last.op = "StoreCommit"
    /\ last.ok
    /\ DOMAIN last.pre.dirty # {}
    /\ last.pre.deleted \cap DOMAIN last.pre.db # {}
    /\ last.pre.snapshots # <<>>

(***************************************************************************)
(* C15.  A call of ComputeRoot leaves the write buffer, the tombstones,    *)
(* the snapshot stack and the KV store as they were, and calling it again  *)
(* returns the same root.  Checked under SpecStore.                        *)
(***************************************************************************)
C15_ComputeRootFrame ==
    last.op = "StoreComputeRoot" =>
        /\ nodes[1].state.dirty = last.pre.dirty
        /\ nodes[1].state.deleted = last.pre.deleted
        /\ nodes[1].state.snapshots = last.pre.snapshots
        /\ nodes[1].state.db = last.pre.db
        /\ last.again = last.root

\* ComputeRoot was called on a store with buffered writes, a tombstone and
\* a snapshot.
C15_Witness ==
    /\ last.op = "StoreComputeRoot"
    /\ DOMAIN last.pre.dirty # {}
    /\ last.pre.deleted # {}
    /\ last.pre.snapshots # <<>>

\* The pairs of view written to the store s in the given order.
RECURSIVE WriteAll(_, _, _)
WriteAll(s, view, order) ==
    IF order = <<>> THEN s
    ELSE WriteAll(set(s, Head(order), view[Head(order)]), view, Tail(order))

(***************************************************************************)
(* C16.  The root of the store depends on the key/value pairs it holds     *)
(* only: writing these pairs to an empty store in any of the orders tried  *)
(* gives the root of the store, under every iteration order, while the     *)
(* pairs are in the buffer and after they are committed.  Checked under    *)
(* SpecStore.                                                              *)
(***************************************************************************)
C16_RootReorderIndependence ==
    LET view == Merged(nodes[1].state)
        root == ComputeRoot(nodes[1].state, 0)
    IN  \A o \in 0 .. 2 * Cardinality(DOMAIN view) :
            LET buffered == WriteAll(NewStateDB(EmptyMap), view, MapOrder(DOMAIN view, o))
            IN  \A seed \in RootSeeds :
                    /\ ComputeRoot(buffered, seed) = root
                    /\ ComputeRoot(Commit(buffered, TRUE).st, seed) = root

\* The store holds four pairs or more, some persisted and some buffered,
\* after a write that followed a commit.
C16_Witness ==
    /\ Cardinality(DOMAIN Merged(nodes[1].state)) >= 4
    /\ Cardinality(DOMAIN nodes[1].state.dirty) >= 2
    /\ Cardinality(DOMAIN nodes[1].state.db) >= 3
    /\ last.op = "write"

(***************************************************************************)
(* C17.  Block linkage: on a chain that has a tip, AddBlock rejects a      *)
(* block whose height is not the tip's height plus one or whose previous   *)
(* hash is not the tip's hash, and the rejected block changes neither the  *)
(* tip nor the store.                                                      *)
(***************************************************************************)
AddBlockCalled == last.op = "Blockchain.AddBlock"

Linked(bc, block) ==
    /\ block.header.height = bc.tip.header.height + 1
    /\ block.header.prev_hash = bc.tip.hash

C17_BlockLinkage ==
    (AddBlockCalled /\ last.pre.tip # NoBlock /\ ~Linked(last.pre, last.block))
        => /\ ~last.ok
           /\ nodes[1].bc = last.pre

\* A block at the right height that names another previous hash, and the
\* store would have taken the write.
C17_Witness ==
    /\ AddBlockCalled /\ last.pre.tip # NoBlock /\ last.ioOk
    /\ last.block.header.height = last.pre.tip.header.height + 1
    /\ last.block.header.prev_hash # last.pre.tip.hash
    /\ ~last.ok

(***************************************************************************)
(* C18.  Fresh chain: on a chain with no tip, a block is accepted as the   *)
(* first block, by AddBlock as well as by ValidateBlock, only if its       *)
(* previous hash is the all-zeros genesis sentinel.                        *)
(***************************************************************************)
C18_FirstBlockNamesGenesis ==
    /\ (AddBlockCalled /\ last.pre.tip = NoBlock /\ last.ok)
           => IsGenesisHash(last.block.header.prev_hash)
    /\ (last.op = "PoA.ValidateBlock" /\ last.pre.tip = NoBlock /\ last.verdict = "none")
           => IsGenesisHash(last.block.header.prev_hash)

(***************************************************************************)
(* C20.  AddBlock persists atomically: when it returns an error the store  *)
(* holds nothing of the block and the tip and height are what they were;   *)
(* when it succeeds the block record, the height index entry and the tip   *)
(* pointer are all stored and the tip and height are the block's.          *)
(***************************************************************************)
C20_AddBlockAtomic ==
    AddBlockCalled =>
        IF last.ok
        THEN /\ nodes[1].bc.store.blocks = MapPut(last.pre.store.blocks, last.block.hash, last.block)
             /\ nodes[1].bc.store.heights =
                    MapPut(last.pre.store.heights, last.block.header.height, last.block.hash)
             /\ nodes[1].bc.store.tip = last.block.hash
             /\ nodes[1].bc.tip = last.block
             /\ nodes[1].bc.height = last.block.header.height
        ELSE nodes[1].bc = last.pre

\* A linked block whose batch write fails, on a chain that has a tip.
C20_Witness ==
    /\ AddBlockCalled /\ last.pre.tip # NoBlock /\ Linked(last.pre, last.block)
    /\ ~last.ioOk /\ ~last.ok /\ last.err = "commit block"
    /\ last.block.hash \notin DOMAIN nodes[1].bc.store.blocks

(***************************************************************************)
(* C19.  Proposer schedule: ValidateBlock accepts a block at height h only *)
(* if its proposer is validators[h mod len(validators)]; ProduceBlock      *)
(* produces a block, at the tip's height plus one, only if the node's own  *)
(* key is that entry; with an empty validator list nothing is produced or  *)
(* accepted; and for a list of distinct keys at most one node may propose  *)
(* a given height.                                                         *)
(***************************************************************************)
Scheduled(validators, h) == validators[(h % Len(validators)) + 1]

Distinct(validators) ==
    \A i, j \in DOMAIN validators : validators[i] = validators[j] => i = j

C19_ProposerSchedule ==
    /\ (last.op = "schedule.ValidateBlock" /\ last.verdict = "none")
           => /\ Len(cfg.validators) > 0
              /\ last.block.header.proposer
                     = Scheduled(cfg.validators, last.block.header.height)
    /\ (last.op = "schedule.ProduceBlock" /\ last.ok)
           => /\ Len(cfg.validators) > 0
              /\ last.block.header.height = last.pre.tip.header.height + 1
              /\ nodes[last.node].key
                     = Scheduled(cfg.validators, last.block.header.height)
              /\ last.block.header.proposer = nodes[last.node].key
    /\ Distinct(cfg.validators)
           => \A n, m \in Nodes :
                  (/\ nodes[n].bc.height = nodes[m].bc.height
                   /\ IsProposerWith(cfg.validators, nodes[n])
                   /\ IsProposerWith(cfg.validators, nodes[m])) => n = m

\* A block accepted at height 2 under a list of two validators, where the
\* index has wrapped around, on top of a block the node produced itself.
C19_Witness ==
    /\ last.op = "schedule.ValidateBlock" /\ last.verdict = "none"
    /\ Len(cfg.validators) = 2
    /\ last.block.header.height = 2
    /\ last.pre.tip.header.proposer = nodes[last.node].key
    /\ last.pre.tip.header.height = 1

(***************************************************************************)
(* C21.  Fee accounting: an applied transaction with fee f in a block of   *)
(* proposer p takes exactly f from the sender and gives exactly f to p     *)
(* when the sender is not p, and leaves the sender's balance untouched by  *)
(* the fee when the sender is p; the sender's nonce grows by exactly one   *)
(* and what the handler then moves is applied on top of the charged        *)
(* record.  Checked under SpecExec for the transaction types whose         *)
(* handler moves no tokens, and for transfers.                             *)
(***************************************************************************)
QuietTypes == {"register_template", "mint_asset", "burn_asset", "transfer_asset",
               "list_market"}

\* The tokens the handler of tx moves into account k.
Moved(tx, k) ==
    IF tx.type # "transfer" THEN 0
    ELSE (IF k = tx.payload.to THEN tx.payload.amount ELSE 0)
         - (IF k = tx.from THEN tx.payload.amount ELSE 0)

\* The fee that account k receives, less the fee it pays.
FeeDelta(tx, proposerKey, k) ==
    (IF k = proposerKey THEN tx.fee ELSE 0) - (IF k = tx.from THEN tx.fee ELSE 0)

C21_FeeAccounting ==
    AppliedExecuteTx =>
        LET tx == last.tx
            proposerKey == BlockUnderExecution(tx).header.proposer
        IN  /\ GetAccount(nodes[1].state, tx.from).nonce
                   = GetAccount(last.pre, tx.from).nonce + 1
            /\ tx.type \in QuietTypes \cup {"transfer"} =>
                   \A k \in Keys :
                       LET expected == GetAccount(last.pre, k).balance
                                       + FeeDelta(tx, proposerKey, k) + Moved(tx, k)
                       IN  expected \in 0 .. MaxU =>
                               GetAccount(nodes[1].state, k).balance = expected

\* The proposer's own transfer, with a fee, to another account.
C21_Witness ==
    /\ AppliedExecuteTx
    /\ last.tx.fee > 0
    /\ last.tx.type = "transfer"
    /\ last.tx.from = BlockUnderExecution(last.tx).header.proposer
    /\ last.tx.payload.to # last.tx.from

(***************************************************************************)
(* C22.  Mempool ordering: after any sequence of add and remove calls,     *)
(* pending(n) returns the first min(n, size) accepted transactions that    *)
(* have not been removed, in the order in which their add calls            *)
(* succeeded, and does not change the pool.                                *)
(***************************************************************************)
\* The transactions accepted and not removed since, oldest first, as the log
\* of successful calls tells them.
RECURSIVE Survivors(_)
Survivors(h) ==
    IF h = <<>> THEN <<>>
    ELSE LET before == Survivors(SubSeq(h, 1, Len(h) - 1))
             e == h[Len(h)]
         IN  IF e.op = "Add" THEN Append(before, e.tx)
             ELSE SelectSeq(before, LAMBDA tx : tx.id \notin e.ids)

C22_PendingOrder ==
    last.op = "Pending" =>
        LET kept == Survivors(hist)
            count == IF last.n < Len(kept) THEN last.n ELSE Len(kept)
        IN  /\ last.result = SubSeq(kept, 1, count)
            /\ nodes[1].mempool = last.pre

(***************************************************************************)
(* C23.  Mempool add rejects a transaction whose id is already in the pool *)
(* and any transaction when the pool is full, leaving the pool unchanged;  *)
(* after any interleaving of add and remove calls the pool holds at most   *)
(* its capacity and the insertion-order list holds exactly the ids in the  *)
(* pool, each once.                                                        *)
(***************************************************************************)
C23_PoolBounded ==
    LET pool == nodes[1].mempool
    IN  /\ (last.op = "Add" /\ (\/ last.tx.id \in DOMAIN last.pre.txs
                                \/ Cardinality(DOMAIN last.pre.txs) >= PoolCap))
               => (~last.ok /\ pool = last.pre)
        /\ Cardinality(DOMAIN pool.txs) <= PoolCap
        /\ {pool.ord[i] : i \in DOMAIN pool.ord} = DOMAIN pool.txs
        /\ Len(pool.ord) = Cardinality(DOMAIN pool.txs)

\* Two callers passed the checks with the same transaction before either
\* took the lock; the second one to take it is turned away as a duplicate.
C23_Witness ==
    /\ last.op = "Add" /\ ~last.ok /\ last.err = "tx already in pool"
    /\ hist # <<>>
    /\ hist[Len(hist)].op = "Add"
    /\ hist[Len(hist)].tx = last.tx
    /\ \E t \in TaskIds : tasks[t].pc = "add"

(***************************************************************************)
(* C24.  In every reachable state and for every asset, the asset's         *)
(* active_listing_id is non-empty iff an active listing for the asset      *)
(* exists; that listing's id is the active_listing_id and no other active  *)
(* listing names the asset.  Checked under SpecMarket.                     *)
(***************************************************************************)
ActiveListings(s, assetID) ==
    {l \in IDsUnder(s, prefixListing) :
        GetListing(s, l).active /\ GetListing(s, l).asset_id = assetID}

C26_BuyMarket ==
    (last.op = "ExecuteTx" /\ last.tx.type = "buy_market") =>
        IF last.ok
        THEN LET listing == GetListing(last.pre, last.tx.payload.listing_id)
                 asset == GetAsset(last.pre, listing.asset_id)
                 buyer == last.tx.from
             IN  /\ listing.active /\ listing.seller # buyer
                 /\ GetAccount(last.pre, buyer).balance >= listing.price
                 /\ GetAccount(nodes[1].state, buyer).balance
                        = GetAccount(last.pre, buyer).balance - listing.price
                 /\ GetAccount(nodes[1].state, listing.seller).balance
                        = GetAccount(last.pre, listing.seller).balance + listing.price
                 /\ GetAsset(nodes[1].state, listing.asset_id)
                        = [asset EXCEPT !.owner = buyer, !.active_listing_id = EmptyStr]
                 /\ GetListing(nodes[1].state, listing.id)
                        = [listing EXCEPT !.active = FALSE]
        ELSE nodes[1].state = last.pre

(***************************************************************************)
(* C25.  Session lifecycle: session_open creates the session with status   *)
(* open; the status changes at most once, from open to closed, by an       *)
(* applied session_result, and a closed session stays closed;              *)
(* session_result on a closed session and session_open with the id of an   *)
(* existing session are rejected and change nothing.  Checked under        *)
(* SpecExec.                                                               *)
(***************************************************************************)
SessionTypes == {"session_open", "session_result"}

C25_SessionLifecycle ==
    /\ last.op = "ExecuteTx" /\ last.tx.type \in SessionTypes =>
          LET id == last.tx.payload.session_id
              was == GetSession(last.pre, id)
              is == GetSession(nodes[1].state, id)
          IN  /\ (last.ok /\ last.tx.type = "session_open")
                     => (was = ErrNotFound /\ is.status = "open")
              /\ (last.ok /\ last.tx.type = "session_result")
                     => (was # ErrNotFound /\ was.status = "open" /\ is.status = "closed")
              /\ (was # ErrNotFound /\ (last.tx.type = "session_open" \/ was.status = "closed"))
                     => (~last.ok /\ nodes[1].state = last.pre)
    /\ last.op \in {"ExecuteTx", "Commit"} =>
          \A id \in IDsUnder(last.pre, prefixSession) :
              /\ GetSession(nodes[1].state, id) # ErrNotFound
              /\ GetSession(last.pre, id).status = "closed"
                     => GetSession(nodes[1].state, id).status = "closed"
              /\ GetSession(nodes[1].state, id).status # GetSession(last.pre, id).status
                     => (last.op = "ExecuteTx" /\ last.ok /\ last.tx.type = "session_result")

\* A second session_result, carrying a fee and naming rewards, is turned
\* away from a session that was closed.
C25_Witness ==
    /\ last.op = "ExecuteTx" /\ ~last.ok /\ last.tx.type = "session_result"
    /\ last.err = "session already closed"
    /\ last.tx.fee > 0
    /\ DOMAIN last.tx.payload.outcome # {}

(***************************************************************************)
(* C28.  No sequence of messages from peers ends the node process: a       *)
(* failure while a peer's message is handled, a failing block of a blocks  *)
(* batch among them, ends at most that peer's read loop.  Checked under    *)
(* SpecTasks, where the process of node 1 ends when a handler calls        *)
(* log.Fatalf.                                                             *)
(***************************************************************************)
C28_PeersNeverEndTheProcess ==
    /\ alive[Subject]
    /\ \A t \in TaskIds : tasks[t].pc # "fatal"

(***************************************************************************)
(* C27.  Concurrent Send calls on one peer never interleave their writes:  *)
(* on the connection every length prefix is directly followed by the body  *)
(* of the same Send, and no Send calls Write on the connection after Close *)
(* has returned.  A Write that fails may leave a truncated frame, which is *)
(* then the last thing the connection carries.  Checked under SpecPeer.    *)
(***************************************************************************)
C27_FramesIntact ==
    /\ \A i \in DOMAIN net.wire :
          LET chunk == net.wire[i]
          IN  /\ ~chunk.whole => (i = Len(net.wire) /\ net.conn.broken)
              /\ chunk.part = "body" =>
                     (i > 1 /\ net.wire[i - 1]
                                  = [send |-> chunk.send, part |-> "header", whole |-> TRUE])
              /\ (chunk.part = "header" /\ chunk.whole) =>
                     IF i < Len(net.wire)
                     THEN net.wire[i + 1].send = chunk.send /\ net.wire[i + 1].part = "body"
                     ELSE \/ net.conn.broken
                          \/ \E t \in TaskIds : tasks[t].pc = "body" /\ tasks[t].i = chunk.send
    /\ \A i \in DOMAIN hist : hist[i].op = "Write" => ~hist[i].afterClose

\* Two goroutines have each sent a whole frame, the peer was closed and the
\* Send of a third was refused.
C27_Witness ==
    /\ last.op = "Send" /\ ~last.ok /\ last.err = "peer closed"
    /\ Len(net.wire) = 4
    /\ \A i \in DOMAIN net.wire : net.wire[i].whole
    /\ \E i \in DOMAIN hist : hist[i].op = "Close"

(***************************************************************************)
(* C29.  Proposer liveness: on a node that is the scheduled proposer for   *)
(* the height after its tip, the ticks eventually produce a block and the  *)
(* height advances, whatever transactions the mempool holds.  Checked      *)
(* under SpecLive, whose ticker is fair.                                   *)
(***************************************************************************)
C29_ProposerLiveness ==
    \A h \in 0 .. MaxLiveHeight - 1 :
        (/\ alive[Subject]
         /\ IsProposerWith(cfg.validators, nodes[Subject])
         /\ nodes[Subject].bc.height = h)
            ~> (nodes[Subject].bc.height > h)

(***************************************************************************)
(* C30.  Sync liveness: once node 1 has handled the hello of a peer whose  *)
(* chain extends its own, it eventually reaches the height the peer had;   *)
(* every request asks for the blocks from the height after the tip, a      *)
(* follow-up request is made after every full batch and none after a       *)
(* shorter one.  Checked under SpecSync: reliable delivery, no block       *)
(* production on node 1, fair scheduling.                                  *)
(***************************************************************************)
C30_SyncLiveness ==
    /\ \A h \in 0 .. MaxSyncHeight :
           (tasks["peer1"].pc = "sync" /\ tasks["peer1"].i = h)
               ~> (nodes[Subject].bc.height >= h)
    /\ [](\A i \in DOMAIN hist :
             /\ hist[i].op = "request" => hist[i].from_height = hist[i].tip + 1
             /\ hist[i].op = "batch" =>
                    ((hist[i].size >= SyncLimit)
                        <=> (/\ i < Len(hist)
                             /\ hist[i + 1].op = "request"
                             /\ hist[i + 1].cause = "batch")))

\* Node 1 has caught up with a peer more than one batch ahead: a full batch,
\* a follow-up request and a shorter batch, after which nothing is in flight.
C30_Witness ==
    /\ nodes[Subject].bc.height = nodes[SyncPeer].bc.height
    /\ nodes[Subject].bc.height > SyncLimit
    /\ net.inbox = <<>> /\ net.outbox = <<>>
    /\ \E i \in DOMAIN hist : hist[i].op = "batch" /\ hist[i].size >= SyncLimit
    /\ hist[Len(hist)].op = "batch" /\ hist[Len(hist)].size < SyncLimit
    /\ hist[Len(hist)].size > 0

(***************************************************************************)
(* C31.  ExecuteBlock applies the transactions in block order and stops at *)
(* the first failing one: the store it leaves is the store after the       *)
(* transactions before the failing one, executed one by one in order; the  *)
(* failing transaction and those after it leave nothing; and the caller's  *)
(* revert to the snapshot taken before the block brings back the buffer    *)
(* and the tombstones of before.  Checked under SpecBlock.                 *)
(***************************************************************************)
RECURSIVE AfterPrefix(_, _, _, _)
AfterPrefix(s, block, seed, i) ==
    IF i = 0 THEN s
    ELSE ExecuteTx(AfterPrefix(s, block, seed, i - 1), block, block.transactions[i], seed).st

FailsAt(s, block, seed, i) ==
    ~ExecuteTx(AfterPrefix(s, block, seed, i - 1), block, block.transactions[i], seed).ok

FirstFailing(s, block, seed) ==
    LET failing == {i \in DOMAIN block.transactions :
                       /\ FailsAt(s, block, seed, i)
                       /\ \A j \in 1 .. i - 1 : ~FailsAt(s, block, seed, j)}
    IN  IF failing = {} THEN 0 ELSE CHOOSE i \in failing : TRUE

C31_BlockOrder ==
    /\ last.op = "ExecuteBlock" =>
          LET k == FirstFailing(last.pre, last.block, last.seed)
              n == Len(last.block.transactions)
              post == nodes[1].state
          IN  /\ last.ok <=> k = 0
              /\ k = 0 => post = AfterPrefix(last.pre, last.block, last.seed, n)
              /\ k > 0 =>
                    /\ post = AfterPrefix(last.pre, last.block, last.seed, k - 1)
                    /\ RevertToSnapshot(post, last.snapID).ok
                    /\ RevertToSnapshot(post, last.snapID).st.dirty = last.before.dirty
                    /\ RevertToSnapshot(post, last.snapID).st.deleted = last.before.deleted
    /\ last.op = "block.Revert" =>
          /\ last.ok
          /\ nodes[1].state.dirty = last.before.dirty
          /\ nodes[1].state.deleted = last.before.deleted
          /\ nodes[1].state.db = last.before.db

\* A block of three whose second transaction failed after the first changed
\* the buffer, and whose third would have been applied.
C31_Witness ==
    /\ last.op = "ExecuteBlock" /\ ~last.ok
    /\ Len(last.block.transactions) = 3
    /\ FirstFailing(last.pre, last.block, last.seed) = 2
    /\ nodes[1].state.dirty # last.before.dirty
    /\ ExecuteTx(nodes[1].state, last.block, last.block.transactions[3], last.seed).ok

(***************************************************************************)
(* C32.  Snapshot returns the stack depth before the push.                 *)
(* RevertToSnapshot(id) succeeds exactly when 0 <= id < depth and then     *)
(* leaves the stack with id entries, so that reverting to the same id      *)
(* again fails; with any other id, and with every id after a Commit, it    *)
(* fails and leaves the buffer, the tombstones and the stack as they were. *)
(* Checked under SpecStore.                                                *)
(***************************************************************************)
C32_SnapshotIds ==
    LET post == nodes[1].state
    IN  /\ last.op = "Snapshot" =>
              /\ last.id = Len(last.pre.snapshots)
              /\ Len(post.snapshots) = last.id + 1
        /\ last.op = "RevertToSnapshot" =>
              /\ last.ok <=> (0 <= last.id /\ last.id < Len(last.pre.snapshots))
              /\ last.ok => /\ Len(post.snapshots) = last.id
                            /\ ~RevertToSnapshot(post, last.id).ok
              /\ ~last.ok => post = last.pre
        /\ (last.op = "StoreCommit" /\ last.ok) =>
              \A id \in -1 .. MaxStoreSteps :
                  /\ ~RevertToSnapshot(post, id).ok
                  /\ RevertToSnapshot(post, id).st = post

\* A revert to the outer of two snapshots went through on a store with
\* buffered writes; the id it used is no longer valid.
C32_Witness ==
    /\ last.op = "RevertToSnapshot"
    /\ last.ok
    /\ last.id = 0
    /\ Len(last.pre.snapshots) >= 2
    /\ last.pre.dirty # nodes[1].state.dirty
    /\ ~RevertToSnapshot(nodes[1].state, 0).ok

(***************************************************************************)
(* C33.  The buffered state store refines a plain map from keys to values: *)
(* after any typed sets and deletes, snapshots, reverts and commits, a key *)
(* reads as not found when the plain map does not hold it and as the value *)
(* the plain map holds otherwise; the buffer and the tombstones share no   *)
(* key; and a missing account, alone among the entities, reads as a        *)
(* zero-value account.  Checked under SpecRefine.                          *)
(***************************************************************************)
StoreKeys(s) ==
    DOMAIN s.db \cup DOMAIN s.dirty \cup s.deleted \cup DOMAIN hist.map
        \cup {WriteKey(w) : w \in Writes}

C33_RefinesPlainMap ==
    LET s == nodes[1].state
    IN  /\ \A k \in StoreKeys(s) :
               get(s, k) = IF k \in DOMAIN hist.map THEN hist.map[k] ELSE ErrNotFound
        /\ DOMAIN s.dirty \cap s.deleted = {}
        /\ Len(hist.saved) = Len(s.snapshots)
        /\ \A a \in Keys :
               AccountKey(a) \notin DOMAIN hist.map =>
                   GetAccount(s, a) = [address |-> a, balance |-> 0, nonce |-> 0]
        /\ AssetKey(<<1>>) \notin DOMAIN hist.map => GetAsset(s, <<1>>) = ErrNotFound
        /\ TemplateKey(<<1>>) \notin DOMAIN hist.map => GetTemplate(s, <<1>>) = ErrNotFound
        /\ SessionKey(<<1>>) \notin DOMAIN hist.map => GetSession(s, <<1>>) = ErrNotFound
        /\ ListingKey(<<1>>) \notin DOMAIN hist.map => GetListing(s, <<1>>) = ErrNotFound

\* A key was written again after its deletion, with the deletion of its
\* persisted value buffered under a snapshot.
C33_Witness ==
    /\ last.op = "refine.write"
    /\ last.write.op = "SetAsset"
    /\ last.key \in DOMAIN nodes[1].state.db
    /\ nodes[1].state.snapshots # <<>>
    /\ \E i \in DOMAIN nodes[1].state.snapshots :
           last.key \in nodes[1].state.snapshots[i].deleted
    /\ get(nodes[1].state, last.key) = last.write.val
    /\ get(nodes[1].state, last.key) # nodes[1].state.db[last.key]

(***************************************************************************)
(* C34.  ComputeRoot returns the same value immediately before and         *)
(* immediately after a successful Commit.  So the state root ProduceBlock  *)
(* writes into the header from the unflushed buffer is the root of the     *)
(* state it has persisted when it returns, and the state root of the       *)
(* genesis block is the root of the committed genesis state.  Checked      *)
(* under SpecStore, for every store the calls build.                       *)
(***************************************************************************)
RootsEqual(s, t) ==
    \A seed \in 0 .. MaxSeed - 1 : ComputeRoot(s, seed) = ComputeRoot(t, 0)

C34_RootAcrossCommit ==
    /\ (last.op = "StoreCommit" /\ last.ok) => RootsEqual(nodes[1].state, last.pre)
    /\ LET res == ProduceBlockWith(<<nodes[1].key>>, nodes[1], 1, <<0, 0>>,
                                   [store |-> TRUE, state |-> TRUE])
       IN  /\ res.ok
           /\ res.node.state.dirty = EmptyMap
           /\ res.block.header.state_root = ComputeRoot(nodes[1].state, 0)
           /\ \A seed \in 0 .. MaxSeed - 1 :
                  ComputeRoot(res.node.state, seed) = res.block.header.state_root
    /\ \A alloc \in GenesisAllocs :
           LET genesis == CreateGenesisBlock(alloc, NewStateDB(EmptyMap), <<1>>, 1)
           IN  \A seed \in 0 .. MaxSeed - 1 :
                   ComputeRoot(genesis.state, seed) = genesis.block.header.state_root

\* A commit flushed buffered writes and the deletion of a persisted key, and
\* the root before it was not the root of the persisted entries alone.
C34_Witness ==
    /\ last.op = "StoreCommit"
    /\ last.ok
    /\ last.pre.deleted \cap DOMAIN last.pre.db # {}
    /\ DOMAIN last.pre.dirty # {}
    /\ ComputeRoot(last.pre, 0) # ComputeRoot(NewStateDB(last.pre.db), 0)
    /\ nodes[1].state.db # last.pre.db

(***************************************************************************)
(* C35.  The chain only extends: in every step the block stored at a       *)
(* height stays the block stored there, the tip height does not decrease   *)
(* and grows by one for each block the step stored, and in the chain the   *)
(* step leaves every stored block above the lowest names the hash of the   *)
(* block stored one height below as its previous hash.  Checked under      *)
(* SpecExt.                                                                *)
(***************************************************************************)
BlockAt(bc, h) == bc.store.blocks[bc.store.heights[h]]

Extends(old, new) ==
    /\ \A h \in DOMAIN old.store.heights :
           h \in DOMAIN new.store.heights /\ BlockAt(new, h) = BlockAt(old, h)
    /\ new.height >= old.height
    /\ new.height - old.height
           = Cardinality(DOMAIN new.store.heights \ DOMAIN old.store.heights)
    /\ new.tip # NoBlock /\ new.tip.header.height = new.height
    /\ new.height \in DOMAIN new.store.heights /\ BlockAt(new, new.height) = new.tip
    /\ \A h \in DOMAIN new.store.heights :
           h > 0 => /\ (h - 1) \in DOMAIN new.store.heights
                    /\ BlockAt(new, h).header.prev_hash = BlockAt(new, h - 1).hash
                    /\ BlockAt(new, h).header.height = h

C35_ChainOnlyExtends == [][\A n \in Nodes : Extends(nodes[n].bc, nodes'[n].bc)]_vars

\* A competing tip was offered to AddBlock on a chain of three blocks: a
\* block at the tip's height on top of the block below the tip.
C35_Witness ==
    /\ last.op = "ext.AddBlock"
    /\ ~last.ok
    /\ last.pre.height >= 2
    /\ last.block.header.height = last.pre.height
    /\ last.block.header.prev_hash \in BelowTip(last.pre)
    /\ last.block # last.pre.tip


(***************************************************************************)
(* C36.  Every transaction in the mempool of node 1 is stored under the    *)
(* hash of its signing body, so no two entries of the pool carry the same  *)
(* signing body and signature, and the transactions a tick took from the   *)
(* pool were pairwise different signed transactions, whether they came     *)
(* through sendTx or through a tx message.  Checked under SpecGossip.      *)
(***************************************************************************)
SameSigned(a, b) == TxHash(a) = TxHash(b) /\ a.signature = b.signature

PoolIdsAreHashes(m) ==
    /\ \A id \in DOMAIN m.txs : m.txs[id].id = id /\ id = TxHash(m.txs[id])
    /\ \A a, b \in DOMAIN m.txs : SameSigned(m.txs[a], m.txs[b]) => a = b

C36_PoolIdIsHash ==
    /\ PoolIdsAreHashes(nodes[1].mempool)
    /\ last.op = "gossip.ProduceBlock" =>
           LET taken == Pending(last.pre, MaxBlockTxs)
           IN  \A i, j \in 1 .. Len(taken) : SameSigned(taken[i], taken[j]) => i = j

(***************************************************************************)
(* C37.  The mempool under block production.  From the Pending of a        *)
(* ProduceBlock on, the order of the pool is the order Pending found       *)
(* followed by the ids added since, in the order they were added, less,    *)
(* once Remove has run, the ids of the transactions of the block at the    *)
(* tip among those that were in the pool before Remove; Remove has run     *)
(* only when that block is the block ProduceBlock built, it is stored as   *)
(* the tip and the state buffer is flushed; and                            *)
(* when ProduceBlock has ended without Remove, at a failed ExecuteBlock,   *)
(* AddBlock or Commit, nothing has left the pool.  Checked under           *)
(* SpecProduce.                                                            *)
(***************************************************************************)
IdsOf(txs) == {txs[i].id : i \in DOMAIN txs}

PoolOrderSince(removed) ==
    SelectSeq(hist.pre.ord \o hist.added, LAMBDA id : id \notin removed) \o hist.later

C37_PoolUnderProduction ==
    LET m == nodes[1].mempool
        removed == IF hist.done THEN IdsOf(nodes[1].bc.tip.transactions) ELSE {}
    IN  /\ m.ord = PoolOrderSince(removed)
        /\ DOMAIN m.txs = {m.ord[i] : i \in DOMAIN m.ord}
        /\ last.op = "produce.Remove" =>
               /\ hist.done
               /\ nodes[1].bc.tip = last.block
               /\ last.block.transactions = Pending(hist.pre, MaxBlockTxs)
               /\ nodes[1].state.dirty = EmptyMap
               /\ nodes[1].state.deleted = {}
        /\ (last.op \in {"produce.Execute", "produce.AddBlock", "produce.Commit"} /\ ~last.ok) =>
               /\ ~hist.done
               /\ m.ord = hist.pre.ord \o hist.added
               /\ \A id \in DOMAIN hist.pre.txs : m.txs[id] = hist.pre.txs[id]

\* A Remove took the two transactions of the committed block out of a pool
\* that had received two more transactions since Pending; they stay, in
\* the order they were added.
C37_Witness ==
    /\ last.op = "produce.Remove"
    /\ Len(last.block.transactions) = 2
    /\ Len(hist.added) = 2
    /\ nodes[1].mempool.ord = hist.added

(***************************************************************************)
(* C38.  Asset ownership.  Across one ExecuteTx: the owner of an asset     *)
(* changes only by an applied transfer_asset of its owner while it is      *)
(* tradeable and unlisted, or by an applied buy_market of its active       *)
(* listing; an asset disappears only by a burn_asset of its owner while    *)
(* unlisted; it gets a listing only by a list_market of its owner;         *)
(* tradeable never changes.  In every state an active listing names an     *)
(* asset that exists, is owned by the listing's seller and carries the     *)
(* listing's id.  Checked under SpecAssets.                                *)
(***************************************************************************)
OwnerChangeAllowed(tx, was, is) ==
    \/ /\ tx.type = "transfer_asset"
       /\ tx.payload.asset_id = was.id
       /\ tx.from = was.owner
       /\ was.tradeable
       /\ was.active_listing_id = EmptyStr
       /\ is.owner = tx.payload.to
    \/ /\ tx.type = "buy_market"
       /\ was.active_listing_id # EmptyStr
       /\ tx.payload.listing_id = was.active_listing_id
       /\ is.owner = tx.from

AssetStepAllowed(tx, ok, was, is) ==
    /\ (is # ErrNotFound /\ is.owner # was.owner) => ok /\ OwnerChangeAllowed(tx, was, is)
    /\ is # ErrNotFound => is.tradeable = was.tradeable
    /\ is = ErrNotFound =>
           /\ ok /\ tx.type = "burn_asset" /\ tx.payload.asset_id = was.id
           /\ tx.from = was.owner /\ was.active_listing_id = EmptyStr
    /\ (is # ErrNotFound /\ is.active_listing_id # was.active_listing_id
            /\ is.active_listing_id # EmptyStr) =>
           /\ ok /\ tx.type = "list_market" /\ tx.payload.asset_id = was.id
           /\ tx.from = was.owner /\ was.active_listing_id = EmptyStr

ListingsOwned(s) ==
    \A l \in IDsUnder(s, prefixListing) :
        GetListing(s, l).active =>
            LET asset == GetAsset(s, GetListing(s, l).asset_id)
            IN  /\ asset # ErrNotFound
                /\ asset.owner = GetListing(s, l).seller
                /\ asset.active_listing_id = l

C38_AssetOwnership ==
    /\ ListingsOwned(nodes[1].state)
    /\ last.op = "ExecuteTx" =>
           \A a \in IDsUnder(last.pre, prefixAsset) :
               AssetStepAllowed(last.tx, last.ok, GetAsset(last.pre, a),
                                GetAsset(nodes[1].state, a))
    /\ last.op = "Commit" =>
           \A a \in IDsUnder(last.pre, prefixAsset) :
               GetAsset(nodes[1].state, a) = GetAsset(last.pre, a)

(***************************************************************************)
(* C39.  Referee-settled payout.  A session_result for a session that      *)
(* exists is applied only if its sender is the account whose session_open  *)
(* created the session, and the session stored records that account as     *)
(* its creator; a session_result from any other sender fails and leaves    *)
(* every balance as it was.  Checked under SpecSession.                    *)
(***************************************************************************)
OpenerOf(id) == {hist[i].opener : i \in {j \in DOMAIN hist : hist[j].id = id}}

BalancesKept(s, t) ==
    \A k \in Keys : GetAccount(s, k).balance = GetAccount(t, k).balance

C39_OnlyCreatorSettles ==
    (last.op = "ExecuteTx" /\ last.tx.type = "session_result"
        /\ GetSession(last.pre, last.tx.payload.session_id) # ErrNotFound
        /\ last.tx.from \notin OpenerOf(last.tx.payload.session_id)) =>
            /\ ~last.ok
            /\ BalancesKept(last.pre, nodes[1].state)

(***************************************************************************)
(* C40.  No balance or nonce arithmetic wraps.  An applied transaction     *)
(* leaves the sender's nonce one above what it was and every balance at    *)
(* exactly what it was, less what the transaction takes from the account   *)
(* (fee, amount, price, stakes), plus what it gives to it (fee of the      *)
(* proposer, amount, price, reward), in unbounded integers; and an         *)
(* applied session_result has rewards that sum to at most the product      *)
(* stakes * len(players).  Checked under SpecExec.                         *)
(***************************************************************************)
Occurrences(seq, k) == Cardinality({i \in DOMAIN seq : seq[i] = k})

Taken(tx, pre, k) ==
    (IF k = tx.from THEN tx.fee ELSE 0)
    + (CASE tx.type = "transfer" /\ k = tx.from -> tx.payload.amount
         [] tx.type = "buy_market" /\ k = tx.from ->
                GetListing(pre, tx.payload.listing_id).price
         [] tx.type = "session_open" ->
                tx.payload.stakes * Occurrences(tx.payload.players, k)
         [] OTHER -> 0)

Given(tx, pre, proposer, k) ==
    (IF k = proposer THEN tx.fee ELSE 0)
    + (CASE tx.type = "transfer" /\ k = tx.payload.to -> tx.payload.amount
         [] tx.type = "buy_market" /\ k = GetListing(pre, tx.payload.listing_id).seller ->
                GetListing(pre, tx.payload.listing_id).price
         [] tx.type = "session_result" /\ k \in DOMAIN tx.payload.outcome ->
                tx.payload.outcome[k]
         [] OTHER -> 0)

C40_NoWrapAround ==
    AppliedExecuteTx =>
        LET tx == last.tx
            proposer == BlockUnderExecution(tx).header.proposer
        IN  /\ GetAccount(nodes[1].state, tx.from).nonce
                   = GetAccount(last.pre, tx.from).nonce + 1
            /\ \A k \in Keys :
                   GetAccount(nodes[1].state, k).balance
                       = GetAccount(last.pre, k).balance - Taken(tx, last.pre, k)
                             + Given(tx, last.pre, proposer, k)
            /\ tx.type = "session_result" =>
                   LET sess == GetSession(last.pre, tx.payload.session_id)
                   IN  SumRewards(tx.payload.outcome) <= sess.stakes * Len(sess.players)
====
